---- MODULE Spec2Model ----
(***************************************************************************)
(* MJOLNIR: the USB response controller (mjolnir/main.py), its trust       *)
(* verifier and its archival pipeline; the baseline of file digests        *)
(* (mjolnir/hashing.py) and its schedule (mjolnir/scheduler.py).           *)
(*                                                                         *)
(* Python strings are modelled as tuples of one-character strings, so      *)
(* that `in`, str() and os.path.join are computed, not assumed.            *)
(* A Python call is modelled by a record [exc, ret]: exc = "none" when     *)
(* the call returns, otherwise the name of the exception it raises.        *)
(* The model describes the functions as written, once their modules are    *)
(* loaded.                                                                 *)
(* The mandatory paths are regular files: present or not, readable or     *)
(* not. Time is counted in ticks, TicksPerDay of them to a day.            *)
(***************************************************************************)
EXTENDS Integers, Sequences, FiniteSets, TLC

VARIABLES
    netlink,    \* device events the kernel has queued on the udev monitor
    pc,         \* position of the thread running monitor_usb
    cur,        \* the event the loop body is handling
    last,       \* what the handling of the latest event did
    plugged,    \* number of device events produced so far
    unit,       \* latest direct call of a function of main.py, with its result
    fs,         \* the mandatory files of the host: present, readable, content
    store,      \* the baseline store (the file BASELINE_HASH_FILE)
    pending,    \* the document generate_baseline is writing, and the files it scanned
    snap,       \* the files as they were when the stored baseline was scanned
    hpc,        \* position of the thread that runs generate_baseline
    hres,       \* the latest call into hashing.py and its result; forgotten
                \* when a file changes afterwards
    edits,      \* number of changes made to the files so far
    clock,      \* wall-clock time, in ticks
    settings,   \* the dictionary settings of config.py, loaded from the settings
                \* document when the module is imported
    last_check, \* the schedule store (last_hash_check.json)
    sres,       \* the latest call of periodic_hash_check and its result
    mpc,        \* position of the thread that runs monitor_usb_events
    delivered,  \* the calls of status_callback so far, in order
    mstart,     \* what check_usb_device_at_startup met and did
    mlast,      \* the hotplug event monitor_usb_events handled last
    mhandled,   \* number of hotplug events monitor_usb_events has handled
    attached,   \* the devices attached to the host at present
    gpc,        \* position of the main thread of gui_main.py
    afterq,     \* the callbacks root.after has queued for the UI thread
    status_label,   \* the text of status_label
    detail,     \* the text of status_detail_label: which message, how much of it
    anims,      \* the animation threads alive: message and characters shown
    uiWrites,   \* which thread has changed which widget
    tcl_threaded,   \* whether the Tcl library of this build is thread-aware
    settings_file,  \* the settings document on disk (settings.json)
    cres,       \* the latest reads of the configuration and what they returned
    cpc,        \* position of the thread that runs periodic_hash_check step by step
    cpend       \* what that thread's generate_baseline scanned and is writing, and
                \* what its compare_with_baseline then found

loopVars == <<netlink, pc, cur, last, plugged>>

hashVars == <<fs, store, pending, snap, hpc, hres, edits>>

schedVars == <<clock, settings, last_check, sres>>

monVars == <<mpc, delivered, mstart, mlast, mhandled, attached>>

guiVars == <<gpc, afterq, status_label, detail, anims, uiWrites, tcl_threaded>>

confVars == <<settings_file, cres>>

checkVars == <<cpc, cpend>>

vars == <<netlink, pc, cur, last, plugged, unit, fs, store, pending, snap, hpc, hres,
          edits, clock, settings, last_check, sres, mpc, delivered, mstart, mlast,
          mhandled, attached, gpc, afterq, status_label, detail, anims, uiWrites, tcl_threaded,
          settings_file, cres, cpc, cpend>>

---------------------------------------------------------------------------
(* Bounds *)

MaxEvents == 2      \* device events produced in one run
MaxFaults == 1      \* host items (directories, files) that are not plainly readable
MaxEdits == 3       \* changes made to the mandatory files in one run
MaxDays == 8        \* days the clock runs
TicksPerDay == 2    \* clock ticks in a day
MaxLen == 3         \* bytes in a file whose digest is computed byte by byte
MaxChars == 2       \* characters in a message that dramatic_status_update animates

---------------------------------------------------------------------------
(* Python string helpers *)

\* Python: needle in hay (substring containment of str)
InStr(needle, hay) ==
    \E i \in 0..(Len(hay) - Len(needle)) :
        SubSeq(hay, i + 1, i + Len(needle)) = needle

RECURSIVE JoinReprs(_)
\* ", ".join(repr(s) for s in l), for strings without quotes or escapes
JoinReprs(l) ==
    IF l = <<>> THEN <<>>
    ELSE <<"'">> \o Head(l) \o <<"'">> \o
         (IF Len(l) > 1 THEN <<",", " ">> ELSE <<>>) \o JoinReprs(Tail(l))

\* Python: str(l) for a list of strings
PyStrList(l) == <<"[">> \o JoinReprs(l) \o <<"]">>

\* a fingerprint with whitespace removed (the canonical form)
Normalize(s) == SelectSeq(s, LAMBDA c : c # " ")

---------------------------------------------------------------------------
(* Configuration *)

EXPECTED_PORT == <<"5","-","9">>

TRUSTED_KEY == <<"C","D","E","D"," ","9","9","1","7"," ","B","3","6","D"," ","9","2","6","3"," ","8","5","7","B"," ","F","C","5","1"," ","7","2","E","6"," ","8","F","A","E"," ","A","1","3","F"," ","0","9","0","3">>

\* the name get_usb_mount in main.py is bound to the function imported from
\* config; main.py never calls it
get_usb_mount == [kind |-> "function", val |-> <<>>]

IMPORT_DIRS == <<"DOCS", "NETWORKING", "SCREENSHOTS", "MISC">>

\* get_mandatory_files(): category -> files, in dictionary order
MANDATORY_CATEGORIES == <<"DOCS", "NETWORKING", "MISC", "LOGS">>

get_mandatory_files ==
    [c \in {"DOCS", "NETWORKING", "MISC", "LOGS"} |->
        CASE c = "DOCS" -> <<"/etc/passwd", "/etc/shadow">>
          [] c = "NETWORKING" -> <<"/etc/hosts", "/etc/hostname", "/etc/resolv.conf",
                                   "/etc/fstab", "/etc/NetworkManager/NetworkManager.conf">>
          [] c = "MISC" -> <<"/etc/ssh/sshd_config">>
          [] c = "LOGS" -> <<>>]

SECURITY_TOOLS == <<"keepassxc", "firefox", "wireshark">>

---------------------------------------------------------------------------
(* The environment: what is on the device, what is on the host *)

\* gpg reports a fingerprint as 40 hexadecimal digits, without separators
FP_TRUSTED == Normalize(TRUSTED_KEY)

FP_OTHER == <<"0","1","2","3","4","5","6","7","8","9","A","B","C","D","E","F","0","1","2","3","4","5","6","7","8","9","A","B","C","D","E","F","0","1","2","3","4","5","6","7">>

\* the medium at the USB mount: whether trusted_pubkey.asc is there, and the
\* fingerprints gpg reports when it imports that file (none: malformed key)
NoKey        == [keyfile |-> FALSE, fprs |-> <<>>]
Malformed    == [keyfile |-> TRUE,  fprs |-> <<>>]
TrustedMedia == [keyfile |-> TRUE,  fprs |-> <<FP_TRUSTED>>]
OtherMedia   == [keyfile |-> TRUE,  fprs |-> <<FP_OTHER>>]
TwoKeyMedia  == [keyfile |-> TRUE,  fprs |-> <<FP_OTHER, FP_TRUSTED>>]

Media == {NoKey, Malformed, TrustedMedia, OtherMedia, TwoKeyMedia}

\* the device presents the configured key: some fingerprint of its key file
\* equals the trusted fingerprint, both in canonical form
Trusted(m) ==
    /\ m.keyfile
    /\ \E i \in 1..Len(m.fprs) : Normalize(m.fprs[i]) = Normalize(TRUSTED_KEY)

\* DEVPATH of a udev event of subsystem usb: a device on a port, or an
\* interface of a device (which has no device node)
DevPaths ==
    { <<"/","u","s","b","5","/","5","-","9">>,
      <<"/","u","s","b","1","/","1","-","2">>,
      <<"/","u","s","b","1","5","/","1","5","-","9">>,
      <<"/","u","s","b","1","/","1","-","2","/","1","-","2",":","1",".","0">> }

IsInterface(devpath) == InStr(<<":">>, devpath)

NoEvent == [action |-> "none", DEVPATH |-> <<>>, device_node |-> "None", media |-> NoKey]

Events ==
    { [action |-> a, DEVPATH |-> p,
       device_node |-> IF IsInterface(p) THEN "None" ELSE "/dev/bus/usb",
       media |-> m] :
        a \in {"add", "remove"}, p \in DevPaths, m \in {NoKey, TrustedMedia, OtherMedia} }

\* how a host item answers when it is read
ItemStates == {"ok", "missing", "denied", "dir", "dir_denied"}

MandatoryFiles ==
    UNION { { get_mandatory_files[c][i] : i \in 1..Len(get_mandatory_files[c]) } :
            c \in DOMAIN get_mandatory_files }

ImportNames == { IMPORT_DIRS[i] : i \in 1..Len(IMPORT_DIRS) }

HealthyItems ==
    [imports |-> [d \in ImportNames |-> "ok"], files |-> [f \in MandatoryFiles |-> "ok"]]

RECURSIVE ItemFaults(_)
\* the item states with at most k items that are not plainly readable
ItemFaults(k) ==
    IF k = 0 THEN {HealthyItems}
    ELSE LET prev == ItemFaults(k - 1) IN
         prev
         \cup { [it EXCEPT !.imports[d] = s] :
                  it \in prev, d \in ImportNames, s \in {"missing", "denied"} }
         \cup { [it EXCEPT !.files[f] = s] :
                  it \in prev, f \in MandatoryFiles, s \in ItemStates \ {"ok"} }

\* what compare_with_baseline meets: no baseline store, a baseline that the
\* files match, one that they do not match, a store that is no JSON document
BaselineStates == {"absent", "match", "mismatch", "truncated"}

\* a host: its items, the state of its baseline, whether the archive can
\* be written, whether gpg encrypts for the recipient
Hosts ==
    { [items |-> it, baseline |-> b, archiveOk |-> a, encOk |-> g] :
        it \in ItemFaults(MaxFaults), b \in BaselineStates, a \in BOOLEAN, g \in BOOLEAN }

HealthyHost ==
    [items |-> HealthyItems, baseline |-> "match", archiveOk |-> TRUE, encOk |-> TRUE]

\* how a subprocess.run(..., check=True) ends
RunOutcomes == {"ok", "CalledProcessError", "FileNotFoundError"}

---------------------------------------------------------------------------
(* Library calls, as main.py uses them *)

\* os.path.join(a, b): a must be a path; a function object raises TypeError
os_path_join(a, b) ==
    IF a.kind = "function" THEN [exc |-> "TypeError", ret |-> <<>>]
    ELSE [exc |-> "none", ret |-> a.val \o <<"/">> \o b]

\* shutil.copy(src, dst): dst is examined first (os.path.isdir(dst)); a
\* function object raises TypeError, a missing src raises FileNotFoundError
shutil_copy(srcExists, dst) ==
    IF dst.kind = "function" THEN "TypeError"
    ELSE IF ~srcExists THEN "FileNotFoundError"
    ELSE "none"

\* subprocess.Popen(prog): an argument that is no string raises TypeError, a
\* program that is not installed raises FileNotFoundError
Popen(argsAreStrings, installed) ==
    IF ~argsAreStrings THEN "TypeError"
    ELSE IF ~installed THEN "FileNotFoundError"
    ELSE "none"

---------------------------------------------------------------------------
(* mjolnir/hashing.py, as far as main.py calls into it *)

compare_with_baseline_blocking(h) ==
    IF h.baseline = "absent" THEN [exc |-> "none", report |-> "No baseline hash file found"]
    ELSE IF h.baseline = "truncated" THEN [exc |-> "JSONDecodeError", report |-> "none"]
    ELSE IF h.baseline = "mismatch" THEN [exc |-> "ValueError", report |-> "Hash mismatches detected"]
    ELSE [exc |-> "none", report |-> "All mandatory files match baseline"]

\* compare_with_baseline() on host h: it returns None whatever it finds, and
\* json.load raises when the store is no JSON document
compare_with_baseline(h) ==
    IF h.baseline = "absent" THEN [exc |-> "none", report |-> "No baseline hash file found"]
    ELSE IF h.baseline = "truncated" THEN [exc |-> "JSONDecodeError", report |-> "none"]
    ELSE IF h.baseline = "mismatch" THEN [exc |-> "none", report |-> "Hash mismatches detected"]
    ELSE [exc |-> "none", report |-> "All mandatory files match baseline"]

---------------------------------------------------------------------------
(* mjolnir/hashing.py *)

Contents == {"a", "b"}

\* SHA-256 of a content: distinct contents have distinct digests
Digest(c) == <<"sha256", c>>

\* Python's None, as a digest
None == <<>>

Bytes == {0, 1}

RECURSIVE ByteStrings(_)
\* the file contents of at most n bytes
ByteStrings(n) ==
    IF n = 0 THEN {<<>>}
    ELSE LET shorter == ByteStrings(n - 1) IN
         shorter \cup { Append(b, x) : b \in shorter, x \in Bytes }

\* the size asked of f.read at line 10
CHUNK_SIZE == 4096

\* the most bytes one f.read(4096) returns: all that were asked for, or
\* fewer when reads are short
ReadSizes == {1, 2, CHUNK_SIZE}

sha256_update_replace(state, chunk) == chunk

\* sha256.update(chunk): the message hashed so far, with chunk after it
sha256_update(state, chunk) == state \o chunk

RECURSIVE ReadAndUpdate(_, _, _)
\* lines 10-11: for chunk in iter(lambda: f.read(4096), b""): sha256.update(chunk)
ReadAndUpdate(state, rest, k) ==
    IF rest = <<>> THEN state
    ELSE LET n == IF k < Len(rest) THEN k ELSE Len(rest) IN
         ReadAndUpdate(sha256_update(state, SubSeq(rest, 1, n)),
                       SubSeq(rest, n + 1, Len(rest)), k)

\* lines 7-12 on a readable file of the given bytes, reads returning at most
\* k bytes: the hexdigest of what was fed to sha256
HashStream(content, k) == Digest(ReadAndUpdate(<<>>, content, k))

Cats == DOMAIN get_mandatory_files

CatFiles(c) == { get_mandatory_files[c][i] : i \in 1..Len(get_mandatory_files[c]) }

PlainFile == [present |-> TRUE, readable |-> TRUE, data |-> "a"]

\* hash_file(filepath) on a path in state x: the digest of the content, or
\* None and one line of log when the file cannot be opened or read
hash_file_unguarded(x) ==
    IF x.present /\ x.readable
    THEN [exc |-> "none", ret |-> Digest(x.data), logs |-> 0]
    ELSE [exc |-> "PermissionError", ret |-> None, logs |-> 0]

hash_file(x) ==
    IF x.present /\ x.readable
    THEN [exc |-> "none", ret |-> Digest(x.data), logs |-> 0]
    ELSE [exc |-> "none", ret |-> None, logs |-> 1]

\* the loops of generate_baseline and compare_with_baseline over the
\* manifest: hash_file on every path that exists
ScanManifest(files) ==
    [c \in Cats |-> [f \in {g \in CatFiles(c) : files[g].present} |-> hash_file(files[f])]]

\* the paths on which the loops call hash_file: those that os.path.exists finds
Scanned(files) == { f \in MandatoryFiles : files[f].present }

\* lines 18-29 of generate_baseline: the dictionary hashes
GenerateScan(files) ==
    LET sc == ScanManifest(files)
        raised == UNION { { sc[c][f].exc : f \in DOMAIN sc[c] } : c \in Cats } \ {"none"}
    IN  [exc |-> IF raised = {} THEN "none" ELSE CHOOSE e \in raised : TRUE,
         doc |-> [c \in Cats |-> [f \in DOMAIN sc[c] |-> sc[c][f].ret]],
         logs |-> Cardinality({ f \in Scanned(files) : hash_file(files[f]).logs > 0 })]

NoStore == [state |-> "absent", doc |-> [c \in Cats |-> <<>>]]

\* baseline.get(category, {}).get(path)
BaselineGet(doc, c, f) == IF f \in DOMAIN doc[c] THEN doc[c][f] ELSE None

IsMismatch_inverted(expected, current) == expected # None /\ current = expected

IsMismatch_noGuard(expected, current) == current # expected

\* the test of lines 52 and 57: if expected and current != expected
IsMismatch(expected, current) == expected # None /\ current # expected

BaselineExists_always(st) == TRUE

\* line 35: os.path.exists(BASELINE_HASH_FILE)
BaselineExists(st) == st.state # "absent"

NoResult ==
    [op |-> "none", exc |-> "none", report |-> "none", mismatches |-> {}, scanned |-> {},
     logs |-> 0]

\* compare_with_baseline() with the store in state st and the files as given
CompareWithBaseline(st, files) ==
    IF ~BaselineExists(st)
    THEN [NoResult EXCEPT !.op = "compare", !.report = "No baseline hash file found"]
    ELSE IF st.state = "absent"
    THEN [NoResult EXCEPT !.op = "compare", !.exc = "FileNotFoundError"]
    ELSE IF st.state = "truncated"
    THEN [NoResult EXCEPT !.op = "compare", !.exc = "JSONDecodeError"]
    ELSE LET sc == ScanManifest(files)
             found == UNION { { [path |-> f, expected |-> BaselineGet(st.doc, c, f),
                                 actual |-> sc[c][f].ret] :
                                f \in { g \in DOMAIN sc[c] :
                                          IsMismatch(BaselineGet(st.doc, c, g), sc[c][g].ret) } } :
                              c \in Cats }
         IN  [NoResult EXCEPT !.op = "compare",
                              !.report = IF found = {} THEN "All mandatory files match baseline"
                                         ELSE "Hash mismatches detected",
                              !.mismatches = found,
                              !.scanned = Scanned(files),
                              !.logs = GenerateScan(files).logs]

open_r_truncating(st) == [state |-> "truncated", doc |-> NoStore.doc]

\* lines 39-40: open(BASELINE_HASH_FILE, "r") and json.load(bf): the store
\* as they leave it
open_r(st) == st

\* the store after compare_with_baseline(): it is opened, for reading, only
\* if it exists
StoreAfterCompare(st) == IF BaselineExists(st) THEN open_r(st) ELSE st

\* the store when json.dump(hashes, bf) of line 31 has written the last of
\* doc and the file is closed. While another thread is between its own
\* open(..., "w") and the end of its dump, both write the one file, each at
\* its own offset, and what the file holds then may be doc or no JSON
\* document at all
Dumped(doc, otherWriter) ==
    { [state |-> "complete", doc |-> doc] }
    \cup (IF otherWriter THEN { [state |-> "truncated", doc |-> NoStore.doc] } ELSE {})

\* generate_baseline() as one call: the scan, then the store is rewritten in
\* place; how: "ok", "unwritable" (open raises) or "interrupted" (the dump fails)
generate_baseline(st, files, how) ==
    LET sc == GenerateScan(files)
    IN  IF sc.exc # "none" THEN [exc |-> sc.exc, store |-> st]
        ELSE IF how = "unwritable" THEN [exc |-> "OSError", store |-> st]
        ELSE IF how = "interrupted"
        THEN [exc |-> "OSError", store |-> [state |-> "truncated", doc |-> NoStore.doc]]
        ELSE [exc |-> "none", store |-> [state |-> "complete", doc |-> sc.doc]]

---------------------------------------------------------------------------
(* mjolnir/hashing.py: generate_baseline over files and directories *)

\* the names of the entries of a directory
Names == {"x", "y"}

NoEntries == [n \in {} |-> 0]

\* a configured path that does not exist
MissingNode == [kind |-> "missing", readable |-> FALSE, data |-> "a", entries |-> NoEntries]

\* a regular file: readable with some content, or not readable
FileNodes ==
    { [kind |-> "file", readable |-> TRUE, data |-> c, entries |-> NoEntries] :
        c \in Contents }
    \cup { [kind |-> "file", readable |-> FALSE, data |-> "a", entries |-> NoEntries] }

\* the directories that can be listed and whose entries are among kids
DirsOf(kids) ==
    { [kind |-> "dir", readable |-> TRUE, data |-> "a", entries |-> e] :
        e \in UNION { [S -> kids] : S \in SUBSET Names } }

\* directories of files, and directories of files and of such directories
SubDirs == DirsOf(FileNodes)

TopDirs == DirsOf(FileNodes \cup SubDirs)

PlainNode == [kind |-> "file", readable |-> TRUE, data |-> "a", entries |-> NoEntries]

\* the hosts scanned: /etc/passwd is missing, a file or a directory,
\* /etc/hosts is missing or a file, every other mandatory path is a file
Trees ==
    { [f \in MandatoryFiles |->
          IF f = "/etc/passwd" THEN top
          ELSE IF f = "/etc/hosts" THEN other
          ELSE PlainNode] :
        top \in {MissingNode} \cup FileNodes \cup TopDirs,
        other \in {MissingNode, PlainNode} }

RECURSIVE Walk(_, _)
\* lines 24-26: os.walk(f) and os.path.join(root, fn): the files in and
\* below the directory node at path, each with its path
Walk(path, node) ==
    UNION { IF node.entries[n].kind = "dir"
            THEN Walk(Append(path, n), node.entries[n])
            ELSE { [path |-> Append(path, n), node |-> node.entries[n]] } :
            n \in DOMAIN node.entries }

\* lines 22-29 for one configured path f: the files hash_file is called on
ScanPath(f, node) ==
    IF node.kind = "missing" THEN {}
    ELSE IF node.kind = "dir" THEN Walk(<<f>>, node)
    ELSE { [path |-> <<f>>, node |-> node] }

\* hash_file(path) on the file node
HashNode(node) ==
    hash_file([present |-> TRUE, readable |-> node.readable, data |-> node.data]).ret

FreshCategory_kept(prior_c) == prior_c

\* line 20: hashes[category] = {}, whatever the store holds for the category
FreshCategory(prior_c) == NoEntries

\* lines 19-29 for one category: the dictionary hashes[category]
ScanCategory(c, prior_c, tree) ==
    LET found == UNION { ScanPath(f, tree[f]) : f \in CatFiles(c) }
        paths == { e.path : e \in found }
        start == FreshCategory(prior_c)
    IN  [p \in paths \cup DOMAIN start |->
            IF p \in paths THEN HashNode((CHOOSE e \in found : e.path = p).node)
            ELSE start[p]]

\* generate_baseline() on the host tree, over the store prior: the store it
\* leaves when it completes
GenerateWalk(prior, tree) ==
    [state |-> "complete", doc |-> [c \in Cats |-> ScanCategory(c, prior.doc[c], tree)]]

\* the stores a generation can find: none, or the baseline of an earlier
\* scan, when every mandatory path was a file of content "b"
PriorStores ==
    { NoStore,
      [state |-> "complete",
       doc |-> [c \in Cats |-> [p \in { <<f>> : f \in CatFiles(c) } |-> Digest("b")]]] }

---------------------------------------------------------------------------
(* mjolnir/scheduler.py *)

DEFAULT_ROTATION_DAYS == 7

\* the settings documents considered: no HASH_ROTATION_DAYS, one day, a week
NoSettings == [k \in {} |-> 0]

Settings ==
    { NoSettings } \cup { [k \in {"HASH_ROTATION_DAYS"} |-> n] : n \in {1, 7} }

get_hash_rotation_days(st) ==
    IF "HASH_ROTATION_DAYS" \in DOMAIN st THEN st["HASH_ROTATION_DAYS"]
    ELSE DEFAULT_ROTATION_DAYS

NoLastCheck == [present |-> FALSE, at |-> 0]

get_last_hash_check(lc) == lc

set_last_hash_check(dt) == [present |-> TRUE, at |-> dt]

\* timedelta.days of a difference of d ticks, d >= 0
Days(d) == d \div TicksPerDay

IsDue_always(lc, now, rotation_days) == TRUE

IsDue_strict(lc, now, rotation_days) ==
    ~lc.present \/ Days(now - lc.at) > rotation_days

\* line 26: not last_check or (now - last_check).days >= rotation_days
IsDue(lc, now, rotation_days) ==
    ~lc.present \/ Days(now - lc.at) >= rotation_days

DaysRemaining_lessToday(lc, now, rotation_days) == rotation_days - Days(now - lc.at) - 1

\* line 32: the number of days in the message "Next hash check in ... days."
DaysRemaining(lc, now, rotation_days) == rotation_days - Days(now - lc.at)

NoCheck ==
    [op |-> "none", hadLast |-> FALSE, lastAt |-> 0, now |-> 0, rotation |-> 0,
     due |-> FALSE, ops |-> <<>>, exc |-> "none", report |-> "none", remaining |-> 0,
     afterFirstRun |-> FALSE]

LastCheckIfRaised_written(lc, now) == set_last_hash_check(now)

\* lines 28-30: an exception of generate_baseline() or of
\* compare_with_baseline() leaves the function before line 30; the schedule
\* store is as it was
LastCheckIfRaised(lc, now) == lc

\* periodic_hash_check() at time now: the calls made in order, the exception
\* that ends it if any, and the stores afterwards. how says how the
\* generation goes; "damaged": it completes, and another writer has emptied
\* the store when compare_with_baseline() opens it
periodic_hash_check(sett, lc, now, st, files, how) ==
    LET rotation_days == get_hash_rotation_days(sett)
        lastc == get_last_hash_check(lc)
        call == [NoCheck EXCEPT !.op = "periodic", !.hadLast = lastc.present,
                                !.lastAt = lastc.at, !.now = now,
                                !.rotation = rotation_days]
    IN  IF IsDue(lastc, now, rotation_days)
        THEN LET gen == generate_baseline(st, files, how)
                 seen == IF how = "damaged"
                         THEN [state |-> "truncated", doc |-> NoStore.doc]
                         ELSE gen.store
                 cmp == CompareWithBaseline(seen, files)
             IN  IF gen.exc # "none"
                 THEN [res |-> [call EXCEPT !.due = TRUE, !.report = "running",
                                            !.ops = <<"generate_baseline">>,
                                            !.exc = gen.exc],
                       store |-> gen.store, compared |-> NoResult,
                       last_check |-> LastCheckIfRaised(lc, now)]
                 ELSE IF cmp.exc # "none"
                 THEN [res |-> [call EXCEPT !.due = TRUE, !.report = "running",
                                            !.ops = <<"generate_baseline",
                                                      "compare_with_baseline">>,
                                            !.exc = cmp.exc],
                       store |-> StoreAfterCompare(seen), compared |-> cmp,
                       last_check |-> LastCheckIfRaised(lc, now)]
                 ELSE [res |-> [call EXCEPT !.due = TRUE, !.report = "running",
                                            !.ops = <<"generate_baseline",
                                                      "compare_with_baseline",
                                                      "set_last_hash_check">>],
                       store |-> StoreAfterCompare(seen), compared |-> cmp,
                       last_check |-> set_last_hash_check(now)]
        ELSE [res |-> [call EXCEPT !.report = "next",
                                   !.remaining = DaysRemaining(lastc, now, rotation_days)],
              store |-> st, compared |-> NoResult, last_check |-> lc]

---------------------------------------------------------------------------
(* mjolnir/main.py *)

verify_usb_trust(m) ==
    LET pubkey_file == os_path_join(get_usb_mount,
            <<"t","r","u","s","t","e","d","_","p","u","b","k","e","y",".","a","s","c">>)
    IN  IF pubkey_file.exc # "none" THEN [exc |-> pubkey_file.exc, ret |-> FALSE]
        ELSE IF ~m.keyfile THEN [exc |-> "none", ret |-> FALSE]
        ELSE LET import_result == [fingerprints |-> m.fprs]
             IN  IF InStr(TRUSTED_KEY, PyStrList(import_result.fingerprints))
                 THEN [exc |-> "none", ret |-> TRUE]
                 ELSE [exc |-> "none", ret |-> FALSE]

RECURSIVE CopyImports(_, _)
\* the loop over IMPORT_DIRS: a missing directory is skipped, copytree of a
\* directory with an unreadable entry raises and nothing catches it
CopyImports(names, st) ==
    IF names = <<>> THEN [exc |-> "none", copied |-> {}, skipped |-> {}]
    ELSE LET d == Head(names) IN
         IF st[d] = "denied" THEN [exc |-> "shutil.Error", copied |-> {}, skipped |-> {}]
         ELSE LET rest == CopyImports(Tail(names), st) IN
              IF st[d] = "missing"
              THEN [rest EXCEPT !.skipped = @ \cup {d}]
              ELSE [rest EXCEPT !.copied = @ \cup {d}]

RECURSIVE CopyFiles(_, _)
\* the loop over the files of one category: a missing path is skipped, a
\* PermissionError of copy2 is caught and the file skipped, copytree of a
\* directory with an unreadable entry raises shutil.Error, which is not caught
CopyFiles(files, st) ==
    IF files = <<>> THEN [exc |-> "none", copied |-> {}, skipped |-> {}]
    ELSE LET f == Head(files) IN
         IF st[f] = "dir_denied" THEN [exc |-> "shutil.Error", copied |-> {}, skipped |-> {}]
         ELSE LET rest == CopyFiles(Tail(files), st) IN
              IF st[f] \in {"missing", "denied"}
              THEN [rest EXCEPT !.skipped = @ \cup {f}]
              ELSE [rest EXCEPT !.copied = @ \cup {f}]

RECURSIVE CopyMandatory(_, _)
\* the loop over the categories of get_mandatory_files()
CopyMandatory(cats, st) ==
    IF cats = <<>> THEN [exc |-> "none", copied |-> {}, skipped |-> {}]
    ELSE LET one == CopyFiles(get_mandatory_files[Head(cats)], st) IN
         IF one.exc # "none" THEN one
         ELSE LET rest == CopyMandatory(Tail(cats), st) IN
              [exc |-> rest.exc,
               copied |-> one.copied \cup rest.copied,
               skipped |-> one.skipped \cup rest.skipped]

BackupRaises(e, stepsDone) ==
    [exc |-> e, ret |-> "None", steps |-> stepsDone, artifact |-> FALSE, log |-> "none",
     recipients |-> <<>>]

\* line 123 with the recipients taken from the key imported from the device
EncryptRecipients_fromDevice == <<FP_OTHER>>

\* line 123: recipients=[TRUSTED_KEY]
EncryptRecipients == <<TRUSTED_KEY>>

\* backup_files(): steps names the steps the call reached, artifact says
\* whether the encrypted archive is on disk and non-empty when the call ends
backup_files(h) ==
    LET imp == CopyImports(IMPORT_DIRS, h.items.imports)
        man == CopyMandatory(MANDATORY_CATEGORIES, h.items.files)
        all == <<"makedirs", "copy_imports", "copy_mandatory", "compare_with_baseline",
                 "make_archive", "encrypt_file">>
    IN  IF imp.exc # "none" THEN BackupRaises(imp.exc, SubSeq(all, 1, 2))
        ELSE IF man.exc # "none" THEN BackupRaises(man.exc, SubSeq(all, 1, 3))
        ELSE IF compare_with_baseline(h).exc # "none"
        THEN BackupRaises(compare_with_baseline(h).exc, SubSeq(all, 1, 4))
        ELSE IF ~h.archiveOk THEN BackupRaises("OSError", SubSeq(all, 1, 5))
        ELSE LET encrypted_result == [ok |-> h.encOk] IN
             [exc |-> "none", ret |-> "important.tar.gz.gpg", steps |-> all,
              artifact |-> encrypted_result.ok,
              log |-> IF encrypted_result.ok THEN "DIVINE ENCRYPTION COMPLETE"
                      ELSE "Encryption ritual failed",
              recipients |-> EncryptRecipients]

RECURSIVE LaunchTools(_, _)
\* the loop over security_tools: FileNotFoundError is caught per tool, any
\* other exception leaves the loop
LaunchTools(tools, installed) ==
    IF tools = <<>> THEN [exc |-> "none", attempted |-> <<>>]
    ELSE LET t == Head(tools)
             r == Popen(t # "keepassxc", t \in installed)
         IN  IF r \notin {"none", "FileNotFoundError"}
             THEN [exc |-> r, attempted |-> <<t>>]
             ELSE LET rest == LaunchTools(Tail(tools), installed) IN
                  [rest EXCEPT !.attempted = <<t>> \o @]

\* launch_security_suite(): the outer handler catches every Exception
launch_security_suite(installed) ==
    LET l == LaunchTools(SECURITY_TOOLS, installed) IN
    [exc |-> "none", attempted |-> l.attempted,
     log |-> IF l.exc = "none" THEN "THE SECURITY COUNCIL IS ASSEMBLED"
             ELSE "Error summoning the guardians"]

\* disconnect_usb(device_node): CalledProcessError is caught for umount and
\* for eject; a device without a node (None) makes subprocess.run raise
disconnect_usb(device_node, um, ej) ==
    IF device_node = "None" THEN [exc |-> "TypeError", calls |-> <<"umount">>]
    ELSE IF um \notin {"ok", "CalledProcessError"} THEN [exc |-> um, calls |-> <<"umount">>]
    ELSE IF ej \notin {"ok", "CalledProcessError"} THEN [exc |-> ej, calls |-> <<"umount", "eject">>]
    ELSE [exc |-> "none", calls |-> <<"umount", "eject">>]

\* the test of line 218 with the negation lost
IsUnexpectedPort_inverted(device_port) == InStr(EXPECTED_PORT, device_port)

\* the test of line 218: EXPECTED_PORT not in device_port
IsUnexpectedPort(device_port) == ~InStr(EXPECTED_PORT, device_port)

\* the trusted branch of monitor_usb after verify_usb_trust() returned True, up
\* to launch_security_suite(): the calls made, and the exception that leaves it
TrustedBranch(h, installed) ==
    LET cmp == compare_with_baseline(h)
        encrypted_archive == backup_files(h)
        cp == shutil_copy(encrypted_archive.artifact, get_usb_mount)
        ls == launch_security_suite(installed)
    IN  IF cmp.exc # "none"
        THEN [exc |-> cmp.exc, calls |-> <<"compare_with_baseline">>]
        ELSE IF encrypted_archive.exc # "none"
        THEN [exc |-> encrypted_archive.exc,
              calls |-> <<"compare_with_baseline", "backup_files">>]
        ELSE IF cp # "none"
        THEN [exc |-> cp,
              calls |-> <<"compare_with_baseline", "backup_files", "shutil.copy">>]
        ELSE [exc |-> ls.exc,
              calls |-> <<"compare_with_baseline", "backup_files", "shutil.copy",
                          "launch_security_suite">>]

\* lines 228-245 with the test "if verify_usb_trust:" (the function object,
\* which is always true, instead of the call)
Response_uncalledVerify(e, h, installed, um, ej) ==
    LET br == TrustedBranch(h, installed)
        dc == disconnect_usb(e.device_node, um, ej)
    IN  IF br.exc # "none"
        THEN [verdict |-> "none", exc |-> br.exc, calls |-> br.calls]
        ELSE [verdict |-> "none", exc |-> dc.exc, calls |-> br.calls \o dc.calls]

\* lines 228-245 of monitor_usb: the response to a device on another port.
\* verdict is what verify_usb_trust() returned ("raised" when it did not
\* return), calls the calls made in order, exc the exception that leaves the
\* loop body ("none" when the body completes)
Response(e, h, installed, um, ej) ==
    LET v == verify_usb_trust(e.media) IN
    IF v.exc # "none"
    THEN [verdict |-> "raised", exc |-> v.exc, calls |-> <<"verify_usb_trust">>]
    ELSE LET br == IF v.ret THEN TrustedBranch(h, installed)
                   ELSE [exc |-> "none", calls |-> <<>>]
             dc == disconnect_usb(e.device_node, um, ej)
             verdict == IF v.ret THEN "True" ELSE "False"
         IN  IF br.exc # "none"
             THEN [verdict |-> verdict, exc |-> br.exc,
                   calls |-> <<"verify_usb_trust">> \o br.calls]
             ELSE [verdict |-> verdict, exc |-> dc.exc,
                   calls |-> <<"verify_usb_trust">> \o br.calls \o dc.calls]

---------------------------------------------------------------------------
(* mjolnir/usb_monitor.py *)

\* the settings documents considered for the monitor: no EXPECTED_PORT, or
\* the port 5-9
MonitorSettings == { NoSettings, [k \in {"EXPECTED_PORT"} |-> EXPECTED_PORT] }

\* config.get_expected_port(): get_settings().get("EXPECTED_PORT")
get_expected_port(st) ==
    IF "EXPECTED_PORT" \in DOMAIN st THEN st["EXPECTED_PORT"] ELSE None

RECURSIVE SplitLast(_)
\* device.device_path.split('/')[-1]
SplitLast(path) ==
    IF path = <<>> \/ path[Len(path)] = "/" THEN <<>>
    ELSE Append(SplitLast(SubSeq(path, 1, Len(path) - 1)), path[Len(path)])

PortIs_substring(port, expected_port) == InStr(expected_port, port)

\* lines 68 and 114: port == expected_port
PortIs(port, expected_port) == port = expected_port

\* what context.list_devices(subsystem='usb', DEVTYPE='usb_device') can
\* yield: the devices attached, without their interfaces
AttachedSets == SUBSET { d \in DevPaths : ~IsInterface(d) }

\* one call of status_callback
Status(b, why, port) == [status |-> b, cause |-> why, port |-> port]

\* how pyudev answers: it works, pyudev.Context() raises, or the iteration
\* over list_devices raises
UdevOutcomes == {"ok", "context_raises", "enumeration_raises"}

\* check_usb_device_at_startup(status_callback) with the devices devs
\* attached. passes counts the enumerations started, statuses are the calls
\* of status_callback
check_usb_device_at_startup(st, devs, how) ==
    LET expected_port == get_expected_port(st)
        found == { d \in devs : PortIs(SplitLast(d), expected_port) }
    IN  IF how = "context_raises"
        THEN [ret |-> FALSE, exc |-> "none", passes |-> 0,
              statuses |-> <<Status(FALSE, "startup", <<>>)>>]
        ELSE IF expected_port = None
        THEN [ret |-> FALSE, exc |-> "none", passes |-> 0,
              statuses |-> <<Status(FALSE, "startup", <<>>)>>]
        ELSE IF how = "enumeration_raises"
        THEN [ret |-> FALSE, exc |-> "none", passes |-> 1,
              statuses |-> <<Status(FALSE, "startup", <<>>)>>]
        ELSE IF found # {}
        THEN [ret |-> TRUE, exc |-> "none", passes |-> 1,
              statuses |-> <<Status(TRUE, "startup", expected_port)>>]
        ELSE [ret |-> FALSE, exc |-> "none", passes |-> 1,
              statuses |-> <<Status(FALSE, "startup", <<>>)>>]

\* lines 105-140: the body of the loop of monitor_usb_events for one event
HandleHotplug(st, device) ==
    LET port == SplitLast(device.DEVPATH)
        expected_port == get_expected_port(st)
    IN  IF device.action = "add"
        THEN IF PortIs(port, expected_port)
             THEN <<Status(TRUE, "add", port)>>
             ELSE <<Status(FALSE, "add", port)>>
        ELSE IF device.action = "remove"
        THEN <<Status(FALSE, "remove", port)>>
        ELSE <<>>

RECURSIVE DirName(_)
\* the device path without its last segment
DirName(path) ==
    IF path = <<>> THEN <<>>
    ELSE IF path[Len(path)] = "/" THEN SubSeq(path, 1, Len(path) - 1)
    ELSE DirName(SubSeq(path, 1, Len(path) - 1))

\* the device an event is about: the device itself, or the device whose
\* interface it is
DeviceOf(path) == IF IsInterface(path) THEN DirName(path) ELSE path

\* the events udev can send with the devices of att attached: a device that
\* is not attached is added, one that is attached is removed, and the
\* interfaces of an attached device come and go with it
CanHappen(att, device) ==
    IF IsInterface(device.DEVPATH) THEN DeviceOf(device.DEVPATH) \in att
    ELSE (device.action = "add") = (device.DEVPATH \notin att)

\* the devices attached after the event
AfterEvent(att, device) ==
    IF IsInterface(device.DEVPATH) THEN att
    ELSE IF device.action = "add" THEN att \cup {device.DEVPATH}
    ELSE att \ {device.DEVPATH}

NoStartup == [checks |-> 0, passes |-> 0, attached |-> {}, how |-> "none", ret |-> FALSE]

InitMonitor ==
    /\ mpc = "start"
    /\ delivered = <<>>
    /\ mstart = NoStartup
    /\ mlast = NoEvent
    /\ mhandled = 0
    /\ attached = {}

---------------------------------------------------------------------------
(* mjolnir/config.py and mjolnir/usb.py: the settings *)

\* list_usb_ports(): the last segment of the device path of every device
\* attached, from which select_usb_port() returns one
SelectablePorts == { SplitLast(d) : d \in { p \in DevPaths : ~IsInterface(p) } }

\* list_usb_mounts(): the mount points from which select_usb_mount() returns one
Mounts == { <<"/","r","u","n","/","a">>, <<"/","r","u","n","/","b">> }

\* d[k] = v on a Python dictionary
SetItem(d, k, v) == [x \in DOMAIN d \cup {k} |-> IF x = k THEN v ELSE d[x]]

\* save_selected_settings(selected_port, usb_mount): the document it writes
\* over the settings document, which holds these two keys and no other
save_selected_settings(selected_port, usb_mount) ==
    [k \in {"USB_MOUNT", "EXPECTED_PORT"} |->
        IF k = "USB_MOUNT" THEN usb_mount ELSE selected_port]

\* update_settings(new_settings): the document it writes over the settings
\* document
update_settings(new_settings) == new_settings

\* config.get_settings() as config.py ends up defining it (lines 62-63
\* replace lines 13-15): the dictionary loaded at import, whatever the
\* document on disk holds by now
get_settings(file, loaded) == loaded

\* config.get_usb_mount(): get_settings().get("USB_MOUNT")
config_get_usb_mount(st) ==
    IF "USB_MOUNT" \in DOMAIN st THEN st["USB_MOUNT"] ELSE None

\* the settings documents a process can find when it starts: written by
\* save_selected_settings, with or without a rotation interval added since
StartDocuments ==
    LET saved == { save_selected_settings(p, m) : p \in SelectablePorts, m \in Mounts }
    IN  saved \cup { SetItem(d, "HASH_ROTATION_DAYS", n) : d \in saved, n \in {1, 7} }

NoRead == [op |-> "none", expected_port |-> None, usb_mount |-> None, rotation_days |-> 0]

\* config.py lines 6-7: the dictionary is what the document holds when the
\* module is imported; nothing has been read through the getters yet
InitConf ==
    /\ settings_file = settings
    /\ cres = NoRead

\* no call of periodic_hash_check is under way
InitCheck ==
    /\ cpc = "idle"
    /\ cpend = [doc |-> NoStore.doc, at |-> fs, prior |-> NoStore, seen |-> fs,
                mismatches |-> {}]

---------------------------------------------------------------------------
(* mjolnir/gui_main.py: the status display *)

\* update_usb_status(is_trusted): root.after(0, set_status)
update_usb_status(q, is_trusted) == Append(q, is_trusted)

RECURSIVE UpdateAll(_, _)
\* status_callback = update_usb_status, called for each status in turn
UpdateAll(q, statuses) ==
    IF statuses = <<>> THEN q
    ELSE UpdateAll(update_usb_status(q, Head(statuses).status), Tail(statuses))

\* how Tk answers a call made by the thread named by, with the main thread
\* at g: a thread-aware Tcl passes the call of another thread to the thread
\* of the interpreter, and refuses it while that thread is not in the main
\* loop; a Tcl that is not thread-aware runs it in the calling thread
TkCall(g, by, threaded) ==
    IF by = "ui" THEN [exc |-> "none", ran |-> "ui"]
    ELSE IF ~threaded THEN [exc |-> "none", ran |-> by]
    ELSE IF g = "mainloop" THEN [exc |-> "none", ran |-> "ui"]
    ELSE [exc |-> "RuntimeError", ran |-> "none"]

\* lines 396-403: the text set_status gives status_label
StatusText(is_trusted) ==
    IF is_trusted THEN "THE WORTHY HAVE RETURNED" ELSE "MJOLNIR AWAITS THE WORTHY"

\* lines 399 and 403: the message set_status animates
StatusDetail(is_trusted) ==
    IF is_trusted THEN "Divine protection flows through the realm"
    ELSE "The chosen one has not yet awakened"

\* dramatic_status_update(message): a new thread that will show message
dramatic_status_update(threads, message) == Append(threads, [msg |-> message, shown |-> 0])

RECURSIVE RunPending(_, _, _, _, _)
\* the thread ran processes the callbacks q that root.after queued: each
\* set_status writes status_label and starts an animation
RunPending(q, label, threads, writes, ran) ==
    IF q = <<>> THEN [label |-> label, anims |-> threads, writes |-> writes]
    ELSE RunPending(Tail(q), StatusText(Head(q)),
                    dramatic_status_update(threads, StatusDetail(Head(q))),
                    writes \cup {[widget |-> "status_label", by |-> ran]}, ran)

\* the sequence threads without its i-th element
Without(threads, i) == SubSeq(threads, 1, i - 1) \o SubSeq(threads, i + 1, Len(threads))

\* the window is built, nothing is started; the Tcl library is one of T
InitGui(T) ==
    /\ gpc = "setup"
    /\ afterq = <<>>
    /\ status_label = "MJOLNIR AWAITS THE WORTHY"
    /\ detail = [msg |-> "The realm slumbers", shown |-> 0]
    /\ anims = <<>>
    /\ uiWrites = {}
    /\ tcl_threaded \in T

---------------------------------------------------------------------------
(* The event loop of monitor_usb *)

NoHandling ==
    [ev |-> NoEvent, path |-> "none", verdict |-> "none", exc |-> "none", calls |-> <<>>]

InitLoop ==
    /\ netlink = <<>>
    /\ pc = "poll"
    /\ cur = NoEvent
    /\ last = NoHandling
    /\ plugged = 0

NoUnit ==
    [fn |-> "none", media |-> NoKey,
     host |-> [items |-> HealthyItems, baseline |-> "absent", archiveOk |-> FALSE,
               encOk |-> FALSE],
     exc |-> "none", ret |-> "None", steps |-> <<>>, artifact |-> FALSE, log |-> "none",
     recipients |-> <<>>, installed |-> {}, node |-> "None", um |-> "ok", ej |-> "ok",
     content |-> <<>>, readsize |-> 0, digest |-> None,
     tree |-> [f \in MandatoryFiles |-> PlainNode], prior |-> NoStore,
     doc |-> NoStore.doc]

InitHash ==
    /\ fs = [f \in MandatoryFiles |-> PlainFile]
    /\ store = NoStore
    /\ pending = [doc |-> NoStore.doc, at |-> fs, logs |-> 0]
    /\ snap = fs
    /\ hpc = "idle"
    /\ hres = NoResult
    /\ edits = 0

\* the scheduler has never run; the settings document is one of S
InitSched(S) ==
    /\ clock = 0
    /\ settings \in S
    /\ last_check = NoLastCheck
    /\ sres = NoCheck

Init ==
    /\ InitLoop
    /\ unit = NoUnit
    /\ InitHash
    /\ InitSched({NoSettings})
    /\ InitMonitor
    /\ InitGui({TRUE})
    /\ InitConf
    /\ InitCheck

\* the same, with any of the settings documents considered
InitConfigured ==
    /\ InitLoop
    /\ unit = NoUnit
    /\ InitHash
    /\ InitSched(Settings)
    /\ InitMonitor
    /\ InitGui({TRUE})
    /\ InitConf
    /\ InitCheck

\* a device is plugged or unplugged: the kernel queues the event, whatever the
\* process is doing
Plug(e) ==
    /\ plugged < MaxEvents
    /\ netlink' = Append(netlink, e)
    /\ plugged' = plugged + 1
    /\ UNCHANGED <<pc, cur, last, unit>>
    /\ UNCHANGED <<hashVars, schedVars>>
    /\ UNCHANGED <<monVars, guiVars, confVars, checkVars>>

\* lines 203-226: the iterator yields the next event; an event that is no
\* "add" is passed over, an "add" on the expected port is welcomed, any other
\* "add" starts the alarm and the countdown
Dispatch ==
    /\ pc = "poll"
    /\ netlink # <<>>
    /\ LET device == Head(netlink) IN
       /\ netlink' = Tail(netlink)
       /\ IF device.action # "add"
          THEN /\ pc' = "poll"
               /\ cur' = NoEvent
               /\ last' = [NoHandling EXCEPT !.ev = device, !.path = "Ignored"]
          ELSE IF IsUnexpectedPort(device.DEVPATH)
          THEN /\ pc' = "respond"
               /\ cur' = device
               /\ last' = last
          ELSE /\ pc' = "poll"
               /\ cur' = NoEvent
               /\ last' = [NoHandling EXCEPT !.ev = device, !.path = "TrustedNoAction"]
    /\ UNCHANGED <<plugged, unit>>
    /\ UNCHANGED <<hashVars, schedVars>>
    /\ UNCHANGED <<monVars, guiVars, confVars, checkVars>>

\* what the response can meet on the host and when it runs umount and eject;
\* a response that verify_usb_trust() leaves with an exception meets none of it
Surroundings(e) ==
    IF verify_usb_trust(e.media).exc # "none"
    THEN { [host |-> HealthyHost, installed |-> {}, um |-> "ok", ej |-> "ok"] }
    ELSE [host : Hosts, installed : SUBSET {"firefox", "wireshark"},
          um : RunOutcomes, ej : RunOutcomes]

\* lines 228-245: the response, run by the loop's own thread; an exception
\* that leaves the loop body leaves monitor_usb, and the process ends
Respond ==
    /\ pc = "respond"
    /\ \E s \in Surroundings(cur) :
         LET r == Response(cur, s.host, s.installed, s.um, s.ej) IN
         /\ last' = [ev |-> cur, path |-> "UntrustedResponse", verdict |-> r.verdict,
                     exc |-> r.exc, calls |-> r.calls]
         /\ pc' = IF r.exc = "none" THEN "poll" ELSE "terminated"
    /\ cur' = NoEvent
    /\ UNCHANGED <<netlink, plugged, unit>>
    /\ UNCHANGED <<hashVars, schedVars>>
    /\ UNCHANGED <<monVars, guiVars, confVars, checkVars>>

Next ==
    \/ \E e \in Events : Plug(e)
    \/ Dispatch
    \/ Respond

Spec == Init /\ [][Next]_vars

---------------------------------------------------------------------------
(* main.py run as a program: the configuration, the preparations, then the
   event loop *)

\* what select_usb_port() and select_usb_mount() can return: a port or a
\* mount, or None when nothing is selected
PortChoices == SelectablePorts \cup {None}

MountChoices == Mounts \cup {None}

\* the process starts: config.py has loaded the document that an earlier
\* configuration left, and the main block has yet to run
InitMain ==
    /\ netlink = <<>>
    /\ pc = "configure"
    /\ cur = NoEvent
    /\ last = NoHandling
    /\ plugged = 0
    /\ unit = NoUnit
    /\ InitHash
    /\ InitSched({save_selected_settings(EXPECTED_PORT, <<"/","r","u","n","/","a">>)})
    /\ InitMonitor
    /\ InitGui({TRUE})
    /\ InitConf
    /\ InitCheck

\* lines 259-261: the port and the mount are selected and saved, whatever
\* was selected
Configure(selected_port, selected_mount) ==
    /\ pc = "configure"
    /\ settings_file' = save_selected_settings(selected_port, selected_mount)
    /\ pc' = "prepare"
    /\ UNCHANGED <<netlink, cur, last, plugged, unit, cres>>
    /\ UNCHANGED <<hashVars, schedVars, monVars, guiVars, checkVars>>

\* lines 264-268: generate_baseline(), compare_with_baseline() and
\* periodic_hash_check(); an exception ends the process before monitor_usb
Prepare(how1, how2) ==
    /\ pc = "prepare"
    /\ LET gen == generate_baseline(store, fs, how1)
           cmp == CompareWithBaseline(gen.store, fs)
           per == periodic_hash_check(get_settings(settings_file, settings), last_check,
                                      clock, StoreAfterCompare(gen.store), fs, how2)
       IN  IF gen.exc # "none"
           THEN /\ store' = gen.store
                /\ hres' = [NoResult EXCEPT !.op = "generate", !.exc = gen.exc]
                /\ pc' = "terminated"
                /\ UNCHANGED <<snap, last_check, sres>>
           ELSE IF cmp.exc # "none"
           THEN /\ store' = StoreAfterCompare(gen.store)
                /\ hres' = cmp
                /\ snap' = fs
                /\ pc' = "terminated"
                /\ UNCHANGED <<last_check, sres>>
           ELSE /\ store' = per.store
                /\ hres' = IF per.res.due THEN per.compared ELSE cmp
                /\ snap' = fs
                /\ last_check' = per.last_check
                /\ sres' = per.res
                /\ pc' = IF per.res.exc = "none" THEN "poll" ELSE "terminated"
    /\ UNCHANGED <<netlink, cur, last, plugged, unit>>
    /\ UNCHANGED <<fs, pending, hpc, edits, clock, settings>>
    /\ UNCHANGED <<monVars, guiVars, confVars, checkVars>>

\* a device is plugged or unplugged once monitor_usb has created its monitor
\* (lines 196-198); earlier events are not queued for it
PlugWatched(e) ==
    /\ pc \notin {"configure", "prepare"}
    /\ Plug(e)

NextMain ==
    \/ \E selected_port \in PortChoices, selected_mount \in MountChoices :
         Configure(selected_port, selected_mount)
    \/ \E how1 \in {"ok", "unwritable", "interrupted"},
          how2 \in {"ok", "unwritable", "interrupted"} : Prepare(how1, how2)
    \/ \E e \in Events : PlugWatched(e)
    \/ Dispatch
    \/ Respond

SpecMain == InitMain /\ [][NextMain]_vars

---------------------------------------------------------------------------
(* The configuration: the settings document is rewritten while the process
   runs, and read through the getters of config.py *)

\* the rotation intervals entered in the dialogs of gui_main.py
RotationChoices == {1, 7}

\* the process starts with any of the documents an earlier run can have left
InitLoaded ==
    /\ InitLoop
    /\ unit = NoUnit
    /\ InitHash
    /\ InitSched(StartDocuments)
    /\ InitMonitor
    /\ InitGui({TRUE})
    /\ InitConf
    /\ InitCheck

\* gui_main.py lines 67-88 (and the main blocks of usb.py and main.py): a
\* port and a mount are selected and save_selected_settings writes them
SaveSelectedSettings(selected_port, selected_mount) ==
    /\ settings_file' = save_selected_settings(selected_port, selected_mount)
    /\ settings_file' # settings_file
    /\ cres' = NoRead
    /\ UNCHANGED <<loopVars, unit, hashVars, schedVars, monVars, guiVars, checkVars>>

\* gui_main.py lines 212-219 and 367-369: settings = get_settings();
\* settings["HASH_ROTATION_DAYS"] = new_rotation; update_settings(settings).
\* get_settings() returns the dictionary of config.py itself, so the
\* assignment changes that dictionary
SaveConfig(new_rotation) ==
    /\ LET st == SetItem(get_settings(settings_file, settings),
                         "HASH_ROTATION_DAYS", new_rotation)
       IN  /\ settings' = st
           /\ settings_file' = update_settings(st)
    /\ settings_file' # settings_file
    /\ cres' = NoRead
    /\ UNCHANGED <<clock, last_check, sres>>
    /\ UNCHANGED <<loopVars, unit, hashVars, monVars, guiVars, checkVars>>

\* get_expected_port(), get_usb_mount() and get_hash_rotation_days() are
\* called
ReadSettings ==
    /\ LET st == get_settings(settings_file, settings) IN
       cres' = [op |-> "read",
                expected_port |-> get_expected_port(st),
                usb_mount |-> config_get_usb_mount(st),
                rotation_days |-> get_hash_rotation_days(st)]
    /\ UNCHANGED settings_file
    /\ UNCHANGED <<loopVars, unit, hashVars, schedVars, monVars, guiVars, checkVars>>

NextConfig ==
    \/ \E selected_port \in SelectablePorts, selected_mount \in Mounts :
         SaveSelectedSettings(selected_port, selected_mount)
    \/ \E new_rotation \in RotationChoices : SaveConfig(new_rotation)
    \/ ReadSettings

SpecConfig == InitLoaded /\ [][NextConfig]_vars

---------------------------------------------------------------------------
(* The functions of main.py called on their own *)

\* verify_usb_trust() with medium m at the USB mount
UnitVerify(m) ==
    /\ unit.fn = "none"
    /\ LET r == verify_usb_trust(m) IN
       unit' = [NoUnit EXCEPT !.fn = "verify_usb_trust", !.media = m, !.exc = r.exc,
                              !.ret = IF r.exc # "none" THEN "None"
                                      ELSE IF r.ret THEN "True" ELSE "False"]
    /\ UNCHANGED <<loopVars, hashVars, schedVars>>
    /\ UNCHANGED <<monVars, guiVars, confVars, checkVars>>

\* backup_files() on host h
UnitBackup(h) ==
    /\ unit.fn = "none"
    /\ LET r == backup_files(h) IN
       unit' = [NoUnit EXCEPT !.fn = "backup_files", !.host = h, !.exc = r.exc,
                              !.ret = r.ret, !.steps = r.steps,
                              !.artifact = r.artifact, !.log = r.log,
                              !.recipients = r.recipients]
    /\ UNCHANGED <<loopVars, hashVars, schedVars>>
    /\ UNCHANGED <<monVars, guiVars, confVars, checkVars>>

\* launch_security_suite() on a host where the programs of installed exist
UnitLaunch(installed) ==
    /\ unit.fn = "none"
    /\ LET r == launch_security_suite(installed) IN
       unit' = [NoUnit EXCEPT !.fn = "launch_security_suite", !.exc = r.exc,
                              !.steps = r.attempted, !.log = r.log,
                              !.installed = installed]
    /\ UNCHANGED <<loopVars, hashVars, schedVars>>
    /\ UNCHANGED <<monVars, guiVars, confVars, checkVars>>

\* disconnect_usb(device_node), umount ending as um and eject as ej
UnitDisconnect(device_node, um, ej) ==
    /\ unit.fn = "none"
    /\ LET r == disconnect_usb(device_node, um, ej) IN
       unit' = [NoUnit EXCEPT !.fn = "disconnect_usb", !.exc = r.exc, !.steps = r.calls,
                              !.node = device_node, !.um = um, !.ej = ej]
    /\ UNCHANGED <<loopVars, hashVars, schedVars>>
    /\ UNCHANGED <<monVars, guiVars, confVars, checkVars>>

\* hash_file(filepath) on a readable file of the given bytes
UnitHash(content, k) ==
    /\ unit.fn = "none"
    /\ unit' = [NoUnit EXCEPT !.fn = "hash_file", !.content = content, !.readsize = k,
                              !.digest = HashStream(content, k)]
    /\ UNCHANGED <<loopVars, hashVars, schedVars>>
    /\ UNCHANGED <<monVars, guiVars, confVars, checkVars>>

\* generate_baseline() on the host tree, the store being prior
UnitGenerate(tree, prior) ==
    /\ unit.fn = "none"
    /\ unit' = [NoUnit EXCEPT !.fn = "generate_baseline", !.tree = tree, !.prior = prior,
                              !.doc = GenerateWalk(prior, tree).doc]
    /\ UNCHANGED <<loopVars, hashVars, schedVars>>
    /\ UNCHANGED <<monVars, guiVars, confVars, checkVars>>

NextUnit ==
    \/ \E m \in Media : UnitVerify(m)
    \/ \E h \in Hosts : UnitBackup(h)
    \/ \E installed \in SUBSET { SECURITY_TOOLS[i] : i \in 1..Len(SECURITY_TOOLS) } :
         UnitLaunch(installed)
    \/ \E device_node \in {"None", "/dev/bus/usb"}, um \in RunOutcomes, ej \in RunOutcomes :
         UnitDisconnect(device_node, um, ej)
    \/ \E content \in ByteStrings(MaxLen), k \in ReadSizes : UnitHash(content, k)
    \/ \E tree \in Trees, prior \in PriorStores : UnitGenerate(tree, prior)

SpecUnit == Init /\ [][NextUnit]_vars

---------------------------------------------------------------------------
(* The baseline: files change on the host while generate_baseline and
   compare_with_baseline are called *)

\* the files that change in a run: two of one category and one of another
ChangingFiles == {"/etc/passwd", "/etc/shadow", "/etc/hosts"}

\* somebody writes content c to file f (creating it if it was missing)
WriteFile(f, c) ==
    /\ hpc = "idle"
    /\ edits < MaxEdits
    /\ ~fs[f].present \/ fs[f].data # c
    /\ fs' = [fs EXCEPT ![f] = [present |-> TRUE,
                                readable |-> IF @.present THEN @.readable ELSE TRUE,
                                data |-> c]]
    /\ edits' = edits + 1
    /\ hres' = NoResult
    /\ UNCHANGED <<store, pending, snap, hpc>>
    /\ UNCHANGED <<loopVars, unit, schedVars>>
    /\ UNCHANGED <<monVars, guiVars, confVars, checkVars>>

\* somebody deletes file f
RemoveFile(f) ==
    /\ hpc = "idle"
    /\ edits < MaxEdits
    /\ fs[f].present
    /\ fs' = [fs EXCEPT ![f] = [PlainFile EXCEPT !.present = FALSE]]
    /\ edits' = edits + 1
    /\ hres' = NoResult
    /\ UNCHANGED <<store, pending, snap, hpc>>
    /\ UNCHANGED <<loopVars, unit, schedVars>>
    /\ UNCHANGED <<monVars, guiVars, confVars, checkVars>>

\* the permissions of file f change: it becomes unreadable, or readable again
Chmod(f) ==
    /\ hpc = "idle"
    /\ edits < MaxEdits
    /\ fs[f].present
    /\ fs' = [fs EXCEPT ![f].readable = ~@]
    /\ edits' = edits + 1
    /\ hres' = NoResult
    /\ UNCHANGED <<store, pending, snap, hpc>>
    /\ UNCHANGED <<loopVars, unit, schedVars>>
    /\ UNCHANGED <<monVars, guiVars, confVars, checkVars>>

\* generate_baseline(), lines 18-30: the scan, then open(BASELINE_HASH_FILE, "w"),
\* which empties the store, or raises when the store cannot be created
GenerateBegin ==
    /\ hpc = "idle"
    /\ LET sc == GenerateScan(fs)
       IN  \E writable \in BOOLEAN :
             IF sc.exc # "none"
             THEN /\ hres' = [NoResult EXCEPT !.op = "generate", !.exc = sc.exc,
                                              !.logs = sc.logs]
                  /\ UNCHANGED <<store, pending, hpc>>
             ELSE IF ~writable
             THEN /\ hres' = [NoResult EXCEPT !.op = "generate", !.exc = "OSError",
                                              !.logs = sc.logs]
                  /\ UNCHANGED <<store, pending, hpc>>
             ELSE /\ store' = [state |-> "truncated", doc |-> NoStore.doc]
                  /\ pending' = [doc |-> sc.doc, at |-> fs, logs |-> sc.logs]
                  /\ hpc' = "dumping"
                  /\ hres' = NoResult
    /\ UNCHANGED <<fs, snap, edits>>
    /\ UNCHANGED <<loopVars, unit, schedVars>>
    /\ UNCHANGED <<monVars, guiVars, confVars, checkVars>>

\* generate_baseline(), lines 31-32: json.dump completes, the file is closed
GenerateEnd ==
    /\ hpc = "dumping"
    /\ store' \in Dumped(pending.doc, cpc = "dumping")
    /\ snap' = pending.at
    /\ hpc' = "idle"
    /\ hres' = [NoResult EXCEPT !.op = "generate", !.report = "Baseline hashes written",
                                !.scanned = Scanned(pending.at), !.logs = pending.logs]
    /\ UNCHANGED <<fs, pending, edits>>
    /\ UNCHANGED <<loopVars, unit, schedVars>>
    /\ UNCHANGED <<monVars, guiVars, confVars, checkVars>>

\* generate_baseline() is interrupted between open and the end of json.dump:
\* the disk is full, or the process is killed
GenerateInterrupted ==
    /\ hpc = "dumping"
    /\ hpc' = "idle"
    /\ hres' = [NoResult EXCEPT !.op = "generate", !.exc = "OSError", !.logs = pending.logs]
    /\ UNCHANGED <<fs, store, pending, snap, edits>>
    /\ UNCHANGED <<loopVars, unit, schedVars>>
    /\ UNCHANGED <<monVars, guiVars, confVars, checkVars>>

\* compare_with_baseline()
Compare ==
    /\ hpc = "idle"
    /\ hres' = CompareWithBaseline(store, fs)
    /\ store' = StoreAfterCompare(store)
    /\ UNCHANGED <<fs, pending, snap, hpc, edits>>
    /\ UNCHANGED <<loopVars, unit, schedVars>>
    /\ UNCHANGED <<monVars, guiVars, confVars, checkVars>>

NextHash ==
    \/ \E f \in ChangingFiles, c \in Contents : WriteFile(f, c)
    \/ \E f \in ChangingFiles : RemoveFile(f)
    \/ \E f \in ChangingFiles : Chmod(f)
    \/ GenerateBegin
    \/ GenerateEnd
    \/ GenerateInterrupted
    \/ Compare

SpecHash == Init /\ [][NextHash]_vars

---------------------------------------------------------------------------
(* The schedule: time passes and periodic_hash_check is called *)

MaxClock == MaxDays * TicksPerDay

Tick ==
    /\ clock < MaxClock
    /\ clock' = clock + 1
    /\ UNCHANGED <<settings, last_check, sres>>
    /\ UNCHANGED <<loopVars, unit, hashVars>>
    /\ UNCHANGED <<monVars, guiVars, confVars, checkVars>>

PeriodicCheck ==
    /\ hpc = "idle"
    /\ \E how \in {"ok", "unwritable", "interrupted", "damaged"} :
         LET r == periodic_hash_check(settings, last_check, clock, store, fs, how)
         IN  /\ sres' = [r.res EXCEPT !.afterFirstRun =
                            sres.op = "periodic" /\ ~sres.hadLast /\ sres.exc = "none"]
             /\ last_check' = r.last_check
             /\ store' = r.store
             /\ snap' = IF r.res.due /\ r.store.state = "complete" THEN fs ELSE snap
             /\ hres' = IF r.res.due THEN r.compared ELSE hres
    /\ UNCHANGED <<clock, settings>>
    /\ UNCHANGED <<fs, pending, hpc, edits>>
    /\ UNCHANGED <<loopVars, unit>>
    /\ UNCHANGED <<monVars, guiVars, confVars, checkVars>>

NextSched == Tick \/ PeriodicCheck

SpecSched == InitConfigured /\ [][NextSched]_vars

---------------------------------------------------------------------------
(* periodic_hash_check step by step: the files change, and other calls are
   made, while it runs *)

StoreWritten_prior(pend) == { pend.prior }

\* hashing.py line 31, in the generate_baseline() of line 28 of scheduler.py:
\* the store when the dump of what this call scanned is complete
StoreWritten(pend) == Dumped(pend.doc, hpc = "dumping")

\* scheduler.py lines 22-28 and hashing.py lines 18-30: the test of line 26,
\* and when the check is due the scan of generate_baseline() and
\* open(BASELINE_HASH_FILE, "w"), which empties the store
CheckBegin ==
    /\ cpc = "idle"
    /\ LET rotation_days == get_hash_rotation_days(settings)
           lastc == get_last_hash_check(last_check)
           call == [NoCheck EXCEPT !.op = "periodic", !.hadLast = lastc.present,
                                   !.lastAt = lastc.at, !.now = clock,
                                   !.rotation = rotation_days]
           sc == GenerateScan(fs)
       IN  IF ~IsDue(lastc, clock, rotation_days)
           THEN /\ sres' = [call EXCEPT !.report = "next",
                                        !.remaining =
                                            DaysRemaining(lastc, clock, rotation_days)]
                /\ UNCHANGED <<store, cpc, cpend>>
           ELSE \E writable \in BOOLEAN :
                  IF sc.exc # "none" \/ ~writable
                  THEN /\ sres' = [call EXCEPT !.due = TRUE, !.report = "running",
                                               !.ops = <<"generate_baseline">>,
                                               !.exc = IF sc.exc # "none" THEN sc.exc
                                                       ELSE "OSError"]
                       /\ UNCHANGED <<store, cpc, cpend>>
                  ELSE /\ sres' = [call EXCEPT !.due = TRUE, !.report = "running",
                                               !.ops = <<"generate_baseline">>]
                       /\ store' = [state |-> "truncated", doc |-> NoStore.doc]
                       /\ cpend' = [doc |-> sc.doc, at |-> fs, prior |-> store, seen |-> fs,
                                    mismatches |-> {}]
                       /\ cpc' = "dumping"
    /\ UNCHANGED <<fs, pending, snap, hpc, hres, edits>>
    /\ UNCHANGED <<clock, settings, last_check>>
    /\ UNCHANGED <<loopVars, unit, monVars, guiVars, confVars>>

\* hashing.py lines 31-32: the dump completes and generate_baseline() returns
CheckDumped ==
    /\ cpc = "dumping"
    /\ store' \in StoreWritten(cpend)
    /\ snap' = cpend.at
    /\ cpc' = "written"
    /\ UNCHANGED <<fs, pending, hpc, hres, edits, cpend>>
    /\ UNCHANGED <<loopVars, unit, schedVars, monVars, guiVars, confVars>>

\* the dump fails: the exception leaves generate_baseline() and
\* periodic_hash_check()
CheckInterrupted ==
    /\ cpc = "dumping"
    /\ sres' = [sres EXCEPT !.exc = "OSError"]
    /\ last_check' = LastCheckIfRaised(last_check, sres.now)
    /\ cpc' = "idle"
    /\ UNCHANGED <<clock, settings, hashVars, cpend>>
    /\ UNCHANGED <<loopVars, unit, monVars, guiVars, confVars>>

\* scheduler.py line 29 and hashing.py lines 35-39: compare_with_baseline()
\* finds the store and opens it for reading
CheckOpen ==
    /\ cpc = "written"
    /\ cpc' = "reading"
    /\ UNCHANGED <<hashVars, schedVars, cpend>>
    /\ UNCHANGED <<loopVars, unit, monVars, guiVars, confVars>>

\* hashing.py lines 40-64 and scheduler.py line 30: json.load reads what the
\* store holds, the files are hashed and compared, and last_check is set to
\* the time the call began
CheckCompare ==
    /\ cpc = "reading"
    /\ LET cmp == CompareWithBaseline(store, fs) IN
       /\ hres' = cmp
       /\ store' = StoreAfterCompare(store)
       /\ cpend' = [cpend EXCEPT !.seen = fs, !.mismatches = cmp.mismatches]
       /\ IF cmp.exc # "none"
          THEN /\ sres' = [sres EXCEPT !.ops = <<"generate_baseline",
                                                  "compare_with_baseline">>,
                                       !.exc = cmp.exc]
               /\ last_check' = LastCheckIfRaised(last_check, sres.now)
          ELSE /\ sres' = [sres EXCEPT !.ops = <<"generate_baseline",
                                                  "compare_with_baseline",
                                                  "set_last_hash_check">>]
               /\ last_check' = set_last_hash_check(sres.now)
    /\ cpc' = "idle"
    /\ UNCHANGED <<fs, pending, snap, hpc, edits>>
    /\ UNCHANGED <<clock, settings>>
    /\ UNCHANGED <<loopVars, unit, monVars, guiVars, confVars>>

\* main.py lines 264-268, a program of one thread: generate_baseline() is
\* called while there is no baseline yet, and periodic_hash_check() when
\* generate_baseline() has returned
FirstGenerateBegin ==
    /\ cpc = "idle"
    /\ store.state = "absent"
    /\ GenerateBegin

SoloCheckBegin == hpc = "idle" /\ CheckBegin

NextRotation ==
    \/ \E f \in ChangingFiles, c \in Contents : WriteFile(f, c)
    \/ \E f \in ChangingFiles : Chmod(f)
    \/ FirstGenerateBegin
    \/ GenerateEnd
    \/ SoloCheckBegin
    \/ CheckDumped
    \/ CheckInterrupted
    \/ CheckOpen
    \/ CheckCompare

SpecRotation == Init /\ [][NextRotation]_vars

---------------------------------------------------------------------------
(* The window of gui_main.py: generate_hash on the UI thread and the thread
   that run_immediate_check starts for periodic_hash_check *)

NextThreads ==
    \/ \E f \in ChangingFiles, c \in Contents : WriteFile(f, c)
    \/ GenerateBegin
    \/ GenerateEnd
    \/ CheckBegin
    \/ CheckDumped
    \/ CheckOpen
    \/ CheckCompare

SpecThreads == Init /\ [][NextThreads]_vars

---------------------------------------------------------------------------
(* The monitor of usb_monitor.py *)

\* the hotplug events of subsystem usb, whatever the device carries
MonEvents == { e \in Events : e.media = NoKey }

\* monitor_usb_events, lines 92-102: the monitor is created, then the
\* devices already attached are looked at, once
MonStartup ==
    /\ mpc = "start"
    /\ \E devs \in AttachedSets, how \in UdevOutcomes :
         LET r == check_usb_device_at_startup(settings, devs, how) IN
         /\ mstart' = [checks |-> mstart.checks + 1, passes |-> mstart.passes + r.passes,
                       attached |-> devs, how |-> how, ret |-> r.ret]
         /\ delivered' = delivered \o r.statuses
         /\ afterq' = UpdateAll(afterq, r.statuses)
         /\ attached' = devs
    /\ mpc' = "vigil"
    /\ UNCHANGED <<mlast, mhandled>>
    /\ UNCHANGED <<gpc, status_label, detail, anims, uiWrites, tcl_threaded>>
    /\ UNCHANGED <<loopVars, unit, hashVars, schedVars, confVars, checkVars>>

\* monitor_usb_events, lines 104-140: one event from monitor.poll
MonHandle(device) ==
    /\ mpc = "vigil"
    /\ mhandled < MaxEvents
    /\ CanHappen(attached, device)
    /\ attached' = AfterEvent(attached, device)
    /\ LET statuses == HandleHotplug(settings, device) IN
       /\ delivered' = delivered \o statuses
       /\ afterq' = UpdateAll(afterq, statuses)
    /\ mlast' = device
    /\ mhandled' = mhandled + 1
    /\ UNCHANGED <<mpc, mstart>>
    /\ UNCHANGED <<gpc, status_label, detail, anims, uiWrites, tcl_threaded>>
    /\ UNCHANGED <<loopVars, unit, hashVars, schedVars, confVars, checkVars>>

NextMonitor ==
    \/ MonStartup
    \/ \E device \in MonEvents : MonHandle(device)

\* the monitor with any of the settings documents considered for it
InitMonitored ==
    /\ InitLoop
    /\ unit = NoUnit
    /\ InitHash
    /\ InitSched(MonitorSettings)
    /\ InitMonitor
    /\ InitGui({TRUE})
    /\ InitConf
    /\ InitCheck

SpecMonitor == InitMonitored /\ [][NextMonitor]_vars

---------------------------------------------------------------------------
(* The window of gui_main.py: the main thread, the monitor thread that
   calls update_usb_status, the animation threads *)

\* lines 421-424 and 475: start_usb_monitor() starts an animation and the
\* monitor thread
StartUsbMonitor ==
    /\ gpc = "setup"
    /\ gpc' = "started"
    /\ anims' = dramatic_status_update(anims, "Initiating eternal vigil")
    /\ UNCHANGED <<afterq, status_label, detail, uiWrites, tcl_threaded>>
    /\ UNCHANGED <<loopVars, unit, hashVars, schedVars, monVars, confVars, checkVars>>

\* line 477: root.mainloop()
EnterMainloop ==
    /\ gpc = "started"
    /\ gpc' = "mainloop"
    /\ UNCHANGED <<afterq, status_label, detail, anims, uiWrites, tcl_threaded>>
    /\ UNCHANGED <<loopVars, unit, hashVars, schedVars, monVars, confVars, checkVars>>

\* lines 394-404: the monitor thread calls update_usb_status(is_trusted),
\* that is root.after(0, set_status)
StatusCallback(is_trusted) ==
    /\ gpc \in {"started", "mainloop"}
    /\ Len(delivered) < MaxEvents
    /\ delivered' = Append(delivered, Status(is_trusted, "callback", <<>>))
    /\ afterq' = IF TkCall(gpc, "monitor", tcl_threaded).exc = "none"
                 THEN update_usb_status(afterq, is_trusted)
                 ELSE afterq
    /\ UNCHANGED <<mpc, mstart, mlast, mhandled, attached>>
    /\ UNCHANGED <<gpc, status_label, detail, anims, uiWrites, tcl_threaded>>
    /\ UNCHANGED <<loopVars, unit, hashVars, schedVars, confVars, checkVars>>

\* the main loop runs the callback that root.after queued first: set_status,
\* lines 395-403
UiRunAfter ==
    /\ gpc = "mainloop"
    /\ afterq # <<>>
    /\ LET r == RunPending(<<Head(afterq)>>, status_label, anims, uiWrites, "ui") IN
       /\ status_label' = r.label
       /\ anims' = r.anims
       /\ uiWrites' = r.writes
    /\ afterq' = Tail(afterq)
    /\ UNCHANGED <<gpc, detail, tcl_threaded>>
    /\ UNCHANGED <<loopVars, unit, hashVars, schedVars, monVars, confVars, checkVars>>

\* lines 59-63: the i-th animation thread shows one more character with
\* status_detail_label.config and calls root.update(), which processes what
\* is pending; a call that Tk refuses ends the thread
AnimStep(i) ==
    /\ i \in 1..Len(anims)
    /\ LET t == anims[i]
           call == TkCall(gpc, "animation", tcl_threaded)
           rest == IF t.shown + 1 < MaxChars
                   THEN [anims EXCEPT ![i].shown = @ + 1]
                   ELSE Without(anims, i)
           r == RunPending(afterq, status_label, rest,
                           uiWrites \cup {[widget |-> "status_detail_label",
                                           by |-> call.ran]}, call.ran)
       IN  IF call.exc # "none"
           THEN /\ anims' = Without(anims, i)
                /\ UNCHANGED <<afterq, status_label, detail, uiWrites>>
           ELSE /\ detail' = [msg |-> t.msg, shown |-> t.shown + 1]
                /\ status_label' = r.label
                /\ anims' = r.anims
                /\ uiWrites' = r.writes
                /\ afterq' = <<>>
    /\ UNCHANGED <<gpc, tcl_threaded>>
    /\ UNCHANGED <<loopVars, unit, hashVars, schedVars, monVars, confVars, checkVars>>

NextGui ==
    \/ StartUsbMonitor
    \/ EnterMainloop
    \/ \E is_trusted \in BOOLEAN : StatusCallback(is_trusted)
    \/ UiRunAfter
    \/ \E i \in 1..(MaxEvents + 2) : AnimStep(i)

\* the window on either build of the Tcl library
InitWindow ==
    /\ InitLoop
    /\ unit = NoUnit
    /\ InitHash
    /\ InitSched({NoSettings})
    /\ InitMonitor
    /\ InitGui(BOOLEAN)
    /\ InitConf
    /\ InitCheck

SpecGui == InitWindow /\ [][NextGui]_vars

---------------------------------------------------------------------------
(* Properties *)

Has(calls, name) == \E i \in 1..Len(calls) : calls[i] = name

\* C1: an "add" event whose device path holds the expected port takes the
\* TrustedNoAction path: the response is never entered for it, trust is not
\* verified, nothing is backed up, and neither umount nor eject is run.
C1_ExpectedPortNoAction ==
    /\ pc = "respond" => ~InStr(EXPECTED_PORT, cur.DEVPATH)
    /\ (last.ev.action = "add" /\ InStr(EXPECTED_PORT, last.ev.DEVPATH)) =>
           /\ last.path = "TrustedNoAction"
           /\ last.verdict = "none"
           /\ last.calls = <<>>
           /\ last.exc = "none"

C1_Witness ==
    /\ last.ev.action = "add"
    /\ InStr(EXPECTED_PORT, last.ev.DEVPATH)
    /\ last.path = "TrustedNoAction"
    /\ pc = "poll"

\* C2: the response to an "add" on another port of a device that carries the
\* trusted key makes, in this order, the calls compare_with_baseline,
\* backup_files, the copy of the artifact onto the mount,
\* launch_security_suite, umount and eject.
C2_TrustedResponseInOrder ==
    (last.path = "UntrustedResponse" /\ Trusted(last.ev.media)) =>
        last.calls = <<"verify_usb_trust", "compare_with_baseline", "backup_files",
                       "shutil.copy", "launch_security_suite", "umount", "eject">>

C4_ResponseEndsWithDisconnect ==
    last.path = "UntrustedResponse" =>
        /\ Len(last.calls) >= 2
        /\ SubSeq(last.calls, Len(last.calls) - 1, Len(last.calls)) = <<"umount", "eject">>

\* C5: backup_files returns a path to its caller only if the encrypted
\* artifact is on disk and non-empty.
C5_ReturnImpliesArtifact ==
    (unit.fn = "backup_files" /\ unit.exc = "none" /\ unit.ret # "None") => unit.artifact

\* C6: a failure of the encryption reaches the caller of backup_files (the
\* response controller): the call does not end as a successful one does.
C6_EncryptionFailureReachesCaller ==
    (unit.fn = "backup_files" /\ Has(unit.steps, "encrypt_file") /\ ~unit.host.encOk) =>
        unit.exc # "none"

\* C7: an exception raised while one event is handled never ends the loop of
\* monitor_usb.
C7_LoopSurvivesExceptions ==
    last.exc # "none" => pc # "terminated"

\* C9: while the response to one event is in progress, the listener can take
\* the next event from the monitor.
C9_ListenerFreeDuringResponse ==
    (pc = "respond" /\ netlink # <<>>) => ENABLED Dispatch

\* C10: verify_usb_trust returns False for every medium that does not carry
\* the trusted key (no key file, or no fingerprint equal to the trusted one),
\* and returns True only for a medium that carries it.
C10_FalseUnlessExactMatch ==
    unit.fn = "verify_usb_trust" =>
        /\ ~Trusted(unit.media) => (unit.exc = "none" /\ unit.ret = "False")
        /\ unit.ret = "True" => Trusted(unit.media)

\* C11: verify_usb_trust returns True for every medium whose key file is
\* present and holds a fingerprint equal to the trusted one up to whitespace.
C11_TrueOnNormalizedMatch ==
    (unit.fn = "verify_usb_trust" /\ Trusted(unit.media)) => unit.ret = "True"

\* C12: the archive is encrypted for the configured fingerprint and for no
\* other recipient, whatever the host and whatever keys were imported.
C12_RecipientIsConfiguredKey ==
    (unit.fn = "backup_files" /\ Has(unit.steps, "encrypt_file")) =>
        unit.recipients = <<TRUSTED_KEY>>

C12_Witness ==
    /\ unit.fn = "backup_files"
    /\ Has(unit.steps, "encrypt_file")
    /\ unit.artifact
    /\ unit.recipients = <<TRUSTED_KEY>>

---------------------------------------------------------------------------
(* Properties of the baseline *)

CategoryOf(f) == CHOOSE c \in Cats : f \in CatFiles(c)

InBaseline(doc) == UNION { DOMAIN doc[c] : c \in Cats }

\* the call of compare_with_baseline that hres holds ran against a whole baseline
Compared == hres.op = "compare" /\ store.state = "complete"

\* C13: compare_with_baseline right after generate_baseline, with the files
\* as generate_baseline scanned them, finds no mismatch and says that all
\* mandatory files match the baseline.
C13_UnmodifiedMatchesBaseline ==
    (Compared /\ fs = snap) =>
        /\ hres.exc = "none"
        /\ hres.mismatches = {}
        /\ hres.report = "All mandatory files match baseline"

C13_Witness ==
    /\ Compared
    /\ fs = snap
    /\ edits > 0
    /\ hres.scanned # {}
    /\ hres.mismatches = {}

\* C14: when the content of exactly one baselined file differs from what was
\* baselined and nothing else changed, the comparison yields exactly one
\* record: that path, the stored digest as expected, the fresh digest as actual.
C14_OneChangeOneRecord ==
    \A f \in MandatoryFiles :
        ( /\ Compared
          /\ snap[f].present /\ fs[f].present /\ fs[f].data # snap[f].data
          /\ \A g \in MandatoryFiles \ {f} : fs[g] = snap[g] )
        => hres.mismatches =
             { [path |-> f, expected |-> BaselineGet(store.doc, CategoryOf(f), f),
                actual |-> hash_file(fs[f]).ret] }

\* C15: every record of a comparison is about a path that is both in the
\* stored baseline and in the fresh scan; a file that appeared since the
\* baseline and a baselined file that is gone are not reported.
C15_OnlyPathsInBoth ==
    Compared => \A m \in hres.mismatches : m.path \in InBaseline(store.doc) \cap Scanned(fs)

C15_Witness ==
    /\ Compared
    /\ Scanned(fs) \ InBaseline(store.doc) # {}
    /\ InBaseline(store.doc) \ Scanned(fs) # {}
    /\ \A m \in hres.mismatches : m.path \in InBaseline(store.doc) \cap Scanned(fs)

\* C16: without a baseline store, compare_with_baseline reports that there is
\* no baseline and returns: no exception, no file scanned, no mismatch.
C16_NoBaselineReported ==
    (hres.op = "compare" /\ store.state = "absent") =>
        /\ hres.exc = "none"
        /\ hres.report = "No baseline hash file found"
        /\ hres.scanned = {}
        /\ hres.logs = 0
        /\ hres.mismatches = {}

C16_Witness ==
    /\ hres.op = "compare"
    /\ store.state = "absent"
    /\ hres.report = "No baseline hash file found"
    /\ \E f \in MandatoryFiles : fs[f].present /\ ~fs[f].readable

\* C17: hash_file on a file that cannot be read returns None, logs once and
\* does not raise; generate_baseline then records None for that path, and the
\* digest of every other existing file, and no read failure makes it raise.
C17_ReadFailureIsNull ==
    /\ \A x \in [present : BOOLEAN, readable : BOOLEAN, data : Contents] :
         ~(x.present /\ x.readable) => hash_file(x) = [exc |-> "none", ret |-> None, logs |-> 1]
    /\ hres.op = "generate" => hres.exc \in {"none", "OSError"}
    /\ (hres.op = "generate" /\ hres.exc = "none") =>
         /\ store.state = "complete"
         /\ \A f \in MandatoryFiles :
              snap[f].present =>
                /\ f \in DOMAIN store.doc[CategoryOf(f)]
                /\ store.doc[CategoryOf(f)][f] =
                     IF snap[f].readable THEN Digest(snap[f].data) ELSE None
         /\ hres.logs = Cardinality({ f \in MandatoryFiles :
                                       snap[f].present /\ ~snap[f].readable })

C17_Witness ==
    /\ hres.op = "generate"
    /\ hres.exc = "none"
    /\ hres.logs = 1
    /\ \E f \in MandatoryFiles : snap[f].present /\ ~snap[f].readable
                                  /\ store.doc[CategoryOf(f)][f] = None
    /\ \E f \in MandatoryFiles : store.doc[CategoryOf(f)][f] = Digest("a")

\* C18: when generate_baseline fails or is interrupted, the baseline store is
\* as it was before, absent or whole, or it holds the whole new baseline: it
\* is never left truncated.
C18_StoreReplacedAtomically ==
    (hres.op = "generate" /\ hres.exc # "none") => store.state \in {"absent", "complete"}

---------------------------------------------------------------------------
(* Properties of the schedule *)

RunOrder == <<"generate_baseline", "compare_with_baseline", "set_last_hash_check">>

IsPrefix(p, q) == Len(p) <= Len(q) /\ \A i \in 1..Len(p) : p[i] = q[i]

\* the call that sres holds found no last_check, or one at least
\* rotation_days whole days old
WasDue ==
    /\ sres.op = "periodic"
    /\ ~sres.hadLast \/ Days(sres.now - sres.lastAt) >= sres.rotation

\* C19: a call of periodic_hash_check that finds last_check absent, or at
\* least rotation_days whole days old, calls generate_baseline, then
\* compare_with_baseline, then stores last_check = now; an exception ends
\* the sequence where it is raised and leaves last_check as it was.
C19_DueRunsInOrder ==
    WasDue =>
        /\ sres.ops # <<>>
        /\ IsPrefix(sres.ops, RunOrder)
        /\ sres.exc = "none" =>
             /\ sres.ops = RunOrder
             /\ last_check = [present |-> TRUE, at |-> sres.now]
             /\ store.state = "complete"
        /\ sres.exc # "none" =>
             last_check = [present |-> sres.hadLast, at |-> sres.lastAt]

C19_Witness ==
    /\ WasDue
    /\ sres.hadLast
    /\ sres.rotation = DEFAULT_ROTATION_DAYS
    /\ sres.ops = RunOrder
    /\ last_check = [present |-> TRUE, at |-> sres.now]

\* the call that sres holds came right after a call that found no
\* last_check and ran, within the same day, with a rotation of 7 days
SecondImmediateCall ==
    /\ sres.op = "periodic"
    /\ sres.afterFirstRun
    /\ sres.hadLast
    /\ Days(sres.now - sres.lastAt) = 0
    /\ sres.rotation = 7

\* C20, as stated: the second immediate call does not regenerate the
\* baseline and reports 6 days remaining.
C20_SixDaysRemaining ==
    SecondImmediateCall =>
        /\ sres.ops = <<>>
        /\ sres.report = "next"
        /\ sres.remaining = 6

\* C20, amended: the second immediate call does not regenerate the baseline,
\* leaves last_check alone and reports 7 days remaining.
C20_SevenDaysRemaining ==
    SecondImmediateCall =>
        /\ sres.ops = <<>>
        /\ sres.exc = "none"
        /\ sres.report = "next"
        /\ sres.remaining = 7
        /\ last_check = [present |-> TRUE, at |-> sres.lastAt]

C20_Witness ==
    /\ SecondImmediateCall
    /\ sres.now = sres.lastAt
    /\ sres.report = "next"
    /\ sres.remaining = 7
    /\ store.state = "complete"

---------------------------------------------------------------------------
(* Properties of the functions of main.py called on their own *)

\* C23: launch_security_suite attempts the launch of every configured tool,
\* whichever of them fail to launch, and returns to its caller.
C23_EveryToolAttempted ==
    unit.fn = "launch_security_suite" =>
        /\ unit.exc = "none"
        /\ unit.steps = SECURITY_TOOLS

\* C26: disconnect_usb attempts umount and then eject however umount ends,
\* and returns without raising however either of them ends.
C26_DisconnectNeverRaises ==
    unit.fn = "disconnect_usb" =>
        /\ unit.steps = <<"umount", "eject">>
        /\ unit.exc = "none"

\* C27: verify_usb_trust raises nothing, whatever the device carries, and
\* returns False for a key file that gpg cannot import.
C27_VerifyNeverRaises ==
    unit.fn = "verify_usb_trust" =>
        /\ unit.exc = "none"
        /\ unit.media = Malformed => unit.ret = "False"

\* C28: a call of periodic_hash_check that finds last_check less than
\* rotation_days whole days old changes neither the baseline store nor
\* last_check, calls neither generate_baseline nor compare_with_baseline and
\* reports the days that remain.
C28_NotDueOnlyReports ==
    [][ ( /\ clock' = clock
          /\ last_check.present
          /\ Days(clock - last_check.at) < get_hash_rotation_days(settings) )
        => /\ store' = store
           /\ last_check' = last_check
           /\ hres' = hres
           /\ sres'.ops = <<>>
           /\ sres'.report = "next"
           /\ sres'.remaining =
                get_hash_rotation_days(settings) - Days(clock - last_check.at) ]_vars

C28_Witness ==
    /\ sres.op = "periodic"
    /\ sres.hadLast
    /\ Days(sres.now - sres.lastAt) > 0
    /\ Days(sres.now - sres.lastAt) < sres.rotation
    /\ sres.ops = <<>>
    /\ sres.report = "next"
    /\ store.state = "complete"
    /\ last_check = [present |-> TRUE, at |-> sres.lastAt]

BackupOrder ==
    <<"makedirs", "copy_imports", "copy_mandatory", "compare_with_baseline",
      "make_archive", "encrypt_file">>

\* C29: a failure to copy one item never ends backup_files: when the archive
\* can be written and the baseline can be read, the call reaches the
\* encryption, whatever the state of the import directories and of the
\* mandatory files.
C29_CopyFailureNeverAborts ==
    ( /\ unit.fn = "backup_files"
      /\ unit.host.baseline # "truncated"
      /\ unit.host.archiveOk )
    => /\ Has(unit.steps, "make_archive")
       /\ Has(unit.steps, "encrypt_file")

\* C30: backup_files takes its steps in the order copy, compare_with_baseline,
\* archive, encrypt; once it has come to compare_with_baseline it goes on to
\* the archive, and to the encryption of an archive that could be written,
\* whether there is no baseline, a matching one or mismatches.
C30_CompareNotBlocking ==
    unit.fn = "backup_files" =>
        /\ IsPrefix(unit.steps, BackupOrder)
        /\ ( /\ Has(unit.steps, "compare_with_baseline")
             /\ unit.host.baseline \in {"absent", "match", "mismatch"} )
           => /\ Has(unit.steps, "make_archive")
              /\ unit.host.archiveOk => unit.steps = BackupOrder

C30_Witness ==
    /\ unit.fn = "backup_files"
    /\ unit.host.baseline = "mismatch"
    /\ unit.steps = BackupOrder
    /\ unit.exc = "none"

---------------------------------------------------------------------------
(* Properties of the monitor of usb_monitor.py *)

\* the statuses delivered by the startup check
InitialStatuses == { i \in 1..Len(delivered) : delivered[i].cause = "startup" }

\* some device attached at startup sits on the configured port
TrustedAttached ==
    /\ get_expected_port(settings) # None
    /\ \E d \in mstart.attached : SplitLast(d) = get_expected_port(settings)

\* the startup check has run: before any event was handled it delivered one
\* status, present exactly if pyudev worked and a device sits on the
\* configured port
OneInitialStatus ==
    /\ mstart.checks = 1
    /\ InitialStatuses = {1}
    /\ delivered[1].status = (mstart.how = "ok" /\ TrustedAttached)

\* C21, as stated: once the monitor watches for events, exactly one
\* enumeration of the attached devices has been made, whatever the settings,
\* and it delivered the one initial status.
C21_OnePassOneStatus ==
    (mpc = "start" => mhandled = 0 /\ delivered = <<>>)
    /\ (mpc = "vigil" => mstart.passes = 1 /\ OneInitialStatus)

\* C21, amended: once the monitor watches for events, the startup check has
\* run exactly once, before any event was handled, and delivered the one
\* initial status; it enumerated the attached devices once if an expected
\* port is configured and pyudev.Context() worked, and not at all otherwise.
C21_OneCheckOneStatus ==
    (mpc = "start" => mhandled = 0 /\ delivered = <<>>)
    /\ (mpc = "vigil" =>
          /\ OneInitialStatus
          /\ mstart.passes =
               IF get_expected_port(settings) # None /\ mstart.how # "context_raises"
               THEN 1 ELSE 0)

C21_Witness ==
    /\ mpc = "vigil"
    /\ mhandled > 0
    /\ mstart.how = "ok"
    /\ mstart.passes = 1
    /\ Cardinality(mstart.attached) > 1
    /\ delivered[1] = Status(TRUE, "startup", EXPECTED_PORT)

\* C22: a status is delivered for a "remove" event only if the device
\* removed sat on the configured port; the removal of any other device
\* delivers nothing.
C22_OtherRemovalDeliversNothing ==
    \A i \in 1..Len(delivered) :
        delivered[i].cause = "remove" =>
            PortIs(delivered[i].port, get_expected_port(settings))

---------------------------------------------------------------------------
(* Properties of the window *)

\* C24: every change of a widget is made by the UI thread, whatever the
\* interleaving of the monitor thread, the animation threads and the UI
\* thread.
C24_OnlyUiThreadWritesWidgets ==
    \A w \in uiWrites : w.by = "ui"

---------------------------------------------------------------------------
(* Properties of main.py run as a program *)

\* C31: the port an attach is compared with is the expected port of the
\* settings document: once a port has been selected and saved, an attach on
\* that port takes the TrustedNoAction path and an attach on any other port
\* takes the untrusted-response path.
C31_ComparesWithSavedPort ==
    LET P == get_expected_port(settings_file) IN
    ( /\ pc \notin {"configure", "prepare"}
      /\ P # None )
    => /\ (pc = "respond" => ~InStr(P, cur.DEVPATH))
       /\ (last.path = "TrustedNoAction" => InStr(P, last.ev.DEVPATH))
       /\ (last.path = "UntrustedResponse" => ~InStr(P, last.ev.DEVPATH))

---------------------------------------------------------------------------
(* Properties of the configuration *)

\* C32: once the settings document has been rewritten, every later call of
\* get_expected_port, get_usb_mount and get_hash_rotation_days returns the
\* values of the document as rewritten, not those loaded when the process
\* started.
C32_ReadsReturnRewrittenDocument ==
    cres.op = "read" =>
        /\ cres.expected_port = get_expected_port(settings_file)
        /\ cres.usb_mount = config_get_usb_mount(settings_file)
        /\ cres.rotation_days = get_hash_rotation_days(settings_file)

---------------------------------------------------------------------------
(* Further properties of the baseline *)

\* C33: compare_with_baseline never writes the baseline store: whatever the
\* files hold and however often it is called, the store after a comparison
\* is the store before it; the store changes only while generate_baseline
\* writes it.
C33_CompareLeavesStore ==
    [][ /\ hres'.op = "compare" => store' = store
        /\ store' # store => (hpc = "dumping" \/ hpc' = "dumping") ]_vars

C33_Witness ==
    /\ hres.op = "compare"
    /\ hres.mismatches # {}
    /\ store.state = "complete"
    /\ store.doc = GenerateScan(snap).doc
    /\ snap # fs

\* the paths below a configured path: no, one or two names further down
NameSeqs == {<<>>} \cup { <<n>> : n \in Names } \cup { <<n, m>> : n \in Names, m \in Names }

RECURSIVE Descend(_, _)
\* what is found going down from node by the names given, one directory
\* after the other
Descend(node, names) ==
    IF names = <<>> THEN node
    ELSE IF node.kind = "dir" /\ Head(names) \in DOMAIN node.entries
    THEN Descend(node.entries[Head(names)], Tail(names))
    ELSE MissingNode

\* the files that exist at the configured paths of category c or below them
ExistingFiles(c, tree) ==
    { p \in { <<f>> \o below : f \in CatFiles(c), below \in NameSeqs } :
        Descend(tree[p[1]], Tail(p)).kind = "file" }

---------------------------------------------------------------------------
(* Further properties of the monitor of usb_monitor.py *)

\* C35: the two classifiers of an attach agree: with the same expected
\* port, monitor_usb_events takes the device of an "add" event for the
\* trusted one exactly if monitor_usb takes the event for one on the
\* expected port.
C35_ClassifiersAgree ==
    ( /\ mlast.action = "add"
      /\ get_expected_port(settings) = EXPECTED_PORT )
    => (delivered[Len(delivered)].status <=> ~IsUnexpectedPort(mlast.DEVPATH))

\* C36: whatever attach and detach events monitor_usb_events has handled,
\* the status it delivered last says "trusted present" exactly if a device
\* is attached on the expected port at present; the attach of another
\* device on another port leaves it at "present" while the device on the
\* expected port stays attached.
C36_LastStatusTracksDevice ==
    ( /\ mpc = "vigil"
      /\ mhandled > 0
      /\ mstart.how = "ok"
      /\ get_expected_port(settings) # None )
    => ( delivered[Len(delivered)].status
         <=> \E d \in attached : SplitLast(d) = get_expected_port(settings) )

---------------------------------------------------------------------------
(* Further properties of the schedule *)

\* the latest call of periodic_hash_check was left by an exception
CheckRaised == sres.op = "periodic" /\ sres.exc # "none"

\* C37: periodic_hash_check writes last_check only when generate_baseline
\* and compare_with_baseline of the same call have both completed; when
\* either raises, last_check is what it was before the call, absent if it
\* was absent, and the next call finds the check due and runs it again.
C37_LastCheckOnlyAfterBoth ==
    /\ [] ( sres.op = "periodic" =>
              /\ Has(sres.ops, "set_last_hash_check") =>
                   /\ sres.exc = "none"
                   /\ sres.ops = <<"generate_baseline", "compare_with_baseline",
                                   "set_last_hash_check">>
              /\ sres.exc # "none" =>
                   /\ ~Has(sres.ops, "set_last_hash_check")
                   /\ last_check.present = sres.hadLast
                   /\ sres.hadLast => last_check.at = sres.lastAt )
    /\ [][ (CheckRaised /\ clock' = clock) =>
              /\ sres'.due
              /\ Has(sres'.ops, "generate_baseline") ]_vars

C37_Witness ==
    /\ CheckRaised
    /\ sres.ops = <<"generate_baseline", "compare_with_baseline">>
    /\ sres.hadLast
    /\ sres.now > sres.lastAt
    /\ last_check = [present |-> TRUE, at |-> sres.lastAt]

---------------------------------------------------------------------------
(* Properties of periodic_hash_check step by step *)

\* the latest call of periodic_hash_check was due and ran to its end
CheckCompleted ==
    /\ cpc = "idle"
    /\ sres.op = "periodic"
    /\ sres.due
    /\ sres.ops = <<"generate_baseline", "compare_with_baseline", "set_last_hash_check">>

\* the paths the call reported as mismatches
Reported == { m.path : m \in cpend.mismatches }

\* the baseline stored before the call does not hold the digest file f had
\* when the call began
ChangedBeforeCall(f) ==
    /\ cpend.prior.state = "complete"
    /\ cpend.at[f].present
    /\ BaselineGet(cpend.prior.doc, CategoryOf(f), f) # hash_file(cpend.at[f]).ret

\* C38: a due periodic_hash_check compares the files with the baseline that
\* its own generate_baseline has just written, not with the one stored
\* before: a file that changed before the call is not reported as a
\* mismatch by it, and whatever it reports is a file that changed between
\* its generate_baseline and its compare_with_baseline, compared with the
\* digest the call itself recorded.
C38_ComparesWithOwnBaseline ==
    CheckCompleted =>
        /\ \A m \in cpend.mismatches :
             /\ cpend.at[m.path] # cpend.seen[m.path]
             /\ m.expected = hash_file(cpend.at[m.path]).ret
        /\ \A f \in MandatoryFiles :
             (ChangedBeforeCall(f) /\ cpend.seen[f] = cpend.at[f]) => f \notin Reported

C38_Witness ==
    /\ CheckCompleted
    /\ ChangedBeforeCall("/etc/passwd")
    /\ "/etc/passwd" \notin Reported
    /\ Reported = {"/etc/hosts"}
    /\ ~ChangedBeforeCall("/etc/hosts")

---------------------------------------------------------------------------
(* Properties of the threads of the window *)

\* C39: the writers and the readers of the baseline store never overlap,
\* however the thread of the scheduled check and the generate_baseline of
\* the UI thread interleave: no two calls of generate_baseline are writing
\* the store at the same time, and no compare_with_baseline is reading it
\* while a generate_baseline is writing it.
C39_StoreAccessesNeverOverlap ==
    /\ ~(hpc = "dumping" /\ cpc = "dumping")
    /\ ~(hpc = "dumping" /\ cpc = "reading")

====
